---- MODULE Spec2Model ----
(***************************************************************************)
(* A model of the wonnx operator compiler (wonnx/src/compiler.rs): the     *)
(* function compile, which turns one graph node and the shapes of its      *)
(* inputs and outputs into a shader template and a dispatch extent, and    *)
(* the workgroup solver workgroup_size it uses; the first use of the       *)
(* static TEMPLATES from several calls; and the buffer helpers resize and  *)
(* padding of wonnx/src/resource.rs.                                       *)
(*                                                                         *)
(* Rust's u64 and u32 are kept at their width.  TLC's integers are 32-bit  *)
(* signed, so a u64 is a sequence of four 16-bit limbs, least significant  *)
(* first: <<5, 0, 1, 0>> is 2^32 + 5. A u32 value is a u64 whose limbs 3   *)
(* and 4 are zero.  Signed attributes (i64) stay TLC integers: the model   *)
(* draws them from small ranges.                                           *)
(***************************************************************************)
EXTENDS Integers, Sequences, FiniteSets, TLC

VARIABLES
    node,            \* the NodeProto: [op_type, attribute]
    input_shapes,    \* sequence of Shape: [dims, data_type]
    output_shapes,   \* sequence of Shape
    opset_version,   \* i64
    pc,              \* position in compile / in the caller of workgroup_size
    context,         \* the tera Context: variable name -> bound value
    node_template,   \* the NodeTemplate chosen by the match, or NoTemplate
    x,               \* workgroup_size's argument x (u64)
    max_threads,     \* workgroup_size's argument max_threads (u32)
    max_workgroup_size, \* workgroup_size's argument max_workgroup_size (u32)
    result,          \* the value returned (NoResult until then)
    registry,        \* the static TEMPLATES: {} until its first use loads it
    once,            \* the guard of TEMPLATES: "incomplete", "running", "complete"
    calls,           \* concurrent calls of compile: each its arguments and locals
    array,           \* resource::resize's argument array (Vec<T>)
    data,            \* resource::padding's argument data (&[u8])
    chunk_size,      \* resource::padding's argument chunk_size (usize)
    padding_size     \* resource::padding's argument padding_size (usize)

vars == <<node, input_shapes, output_shapes, opset_version, pc, context,
          node_template, x, max_threads, max_workgroup_size, result, registry, once,
          calls, array, data, chunk_size, padding_size>>

----------------------------------------------------------------------------
(* Unsigned 64-bit arithmetic on limbs.                                    *)

Limb == 2^16

Zero64 == <<0, 0, 0, 0>>

\* The u64 of a natural number below 2^31.
Nat64(n) == <<n % Limb, n \div Limb, 0, 0>>

\* n * 2^32 + m, for n < 2^31 and m < 2^31.
Big64(n, m) == <<m % Limb, m \div Limb, n % Limb, n \div Limb>>

FitsInt(a) == a[3] = 0 /\ a[4] = 0 /\ a[2] < 2^15

\* The TLC integer of a u64 below 2^31.
ToInt(a) == a[1] + Limb * a[2]

Lt64(a, b) ==
    \/ a[4] < b[4]
    \/ a[4] = b[4] /\ a[3] < b[3]
    \/ a[4] = b[4] /\ a[3] = b[3] /\ a[2] < b[2]
    \/ a[4] = b[4] /\ a[3] = b[3] /\ a[2] = b[2] /\ a[1] < b[1]

Le64(a, b) == ~Lt64(b, a)

\* Wrapping addition (mod 2^64): the limb sums with the carries moved up.
Carried(s1, s2, s3, s4) ==
    <<s1 % Limb,
      (s2 + s1 \div Limb) % Limb,
      (s3 + (s2 + s1 \div Limb) \div Limb) % Limb,
      (s4 + (s3 + (s2 + s1 \div Limb) \div Limb) \div Limb) % Limb>>

Add64(a, b) == Carried(a[1] + b[1], a[2] + b[2], a[3] + b[3], a[4] + b[4])

\* a - b for b <= a: the limb differences with the borrows moved up.
Borrow(d) == IF d < 0 THEN 1 ELSE 0

Borrowed(d1, d2, d3, d4) ==
    <<d1 % Limb,
      (d2 - Borrow(d1)) % Limb,
      (d3 - Borrow(d2 - Borrow(d1))) % Limb,
      (d4 - Borrow(d3 - Borrow(d2 - Borrow(d1)))) % Limb>>

Sub64(a, b) == Borrowed(a[1] - b[1], a[2] - b[2], a[3] - b[3], a[4] - b[4])

\* Bit i (0 = least significant) of a.
Bit64(a, i) == (a[(i \div 16) + 1] \div 2^(i % 16)) % 2

\* a with bit i set (bit i of a is 0).
SetBit64(a, i) == [a EXCEPT ![(i \div 16) + 1] = @ + 2^(i % 16)]

\* 2 * a + bit, wrapping.
Shl64(a, bit) == Add64(Add64(a, a), <<bit, 0, 0, 0>>)

\* Wrapping multiplication (mod 2^64) by shift and add.  MulBits folds the
\* bits of b from s[1] down to lo into the accumulator s[2].
MulStep(a, bit, doubled) == IF bit = 1 THEN Add64(doubled, a) ELSE doubled

RECURSIVE MulBits(_, _, _, _)
MulBits(a, b, lo, s) ==
    IF s[1] < lo THEN s
    ELSE MulBits(a, b, lo,
                 <<s[1] - 1, MulStep(a, Bit64(b, s[1]), Add64(s[2], s[2]))>>)

Mul64(a, b) ==
    IF FitsInt(a) /\ FitsInt(b) /\ ToInt(a) < 2^15 /\ ToInt(b) < 2^15
    THEN Nat64(ToInt(a) * ToInt(b))
    ELSE MulBits(a, b, 0,
             MulBits(a, b, 16,
                 MulBits(a, b, 32,
                     MulBits(a, b, 48, <<63, Zero64>>))))[2]

\* Quotient and remainder of a by b # 0, by binary long division.  DivBits
\* brings down the bits of a from s[1] to lo; s = <<bit, quotient, remainder>>.
\* The remainder stays below b < 2^63, so doubling it does not wrap.
DivStep(b, bit, quot, rem) ==
    IF Le64(b, rem)
    THEN <<bit - 1, SetBit64(quot, bit), Sub64(rem, b)>>
    ELSE <<bit - 1, quot, rem>>

RECURSIVE DivBits(_, _, _, _)
DivBits(a, b, lo, s) ==
    IF s[1] < lo THEN s
    ELSE DivBits(a, b, lo, DivStep(b, s[1], s[2], Shl64(s[3], Bit64(a, s[1]))))

QuotRem(s) == [quot |-> s[2], rem |-> s[3]]

DivMod64(a, b) ==
    IF FitsInt(a) /\ FitsInt(b)
    THEN [quot |-> Nat64(ToInt(a) \div ToInt(b)), rem |-> Nat64(ToInt(a) % ToInt(b))]
    ELSE QuotRem(DivBits(a, b, 0,
                     DivBits(a, b, 16,
                         DivBits(a, b, 32,
                             DivBits(a, b, 48, <<63, Zero64, Zero64>>)))))

\* `as u32`: the low 32 bits.
AsU32(a) == <<a[1], a[2], 0, 0>>

\* The product of a sequence of u64 (iter().product()), 1 when empty.
RECURSIVE Product(_)
Product(s) == IF s = <<>> THEN Nat64(1) ELSE Mul64(Head(s), Product(Tail(s)))

----------------------------------------------------------------------------
(* Results: Ok(v) and Err(e) of Result<_, CompileError>; a panic aborts    *)
(* the call.                                                               *)

Ok(v) == [ok |-> TRUE, value |-> v]
Err(kind, args) == [ok |-> FALSE, error |-> kind, args |-> args]
Panic(what) == [ok |-> FALSE, error |-> "panic", args |-> <<what>>]
NoResult == [ok |-> FALSE, error |-> "none", args |-> <<>>]

MAX_COMPUTE_WORKGROUPS_PER_DIMENSION == 65535
MAX_WORKGROUP_SIZE_X == 256
MAX_WORKGROUP_SIZE_Y == 256

\* utils::ceil(num, div) = num / div + (num % div != 0); div = 0 panics.
ceil_of(qr) == IF qr.rem = Zero64 THEN qr.quot ELSE Add64(qr.quot, Nat64(1))

ceil(num, div) == ceil_of(DivMod64(num, div))

\* workgroup_size from `if threads > max_threads` on: the two limit checks
\* and the pair returned.
workgroup_size_checked(max_threads_, max_workgroup_size_, workgroup_size_, threads) ==
    IF Lt64(Nat64(max_threads_), threads)
    THEN Err("ComputeLimitExceeded", <<"threads", threads, max_threads_>>)
    ELSE IF Lt64(Nat64(max_workgroup_size_), workgroup_size_)
    THEN Err("ComputeLimitExceeded",
             <<"workgroup size", workgroup_size_, max_workgroup_size_>>)
    ELSE Ok(<<threads, workgroup_size_>>)

\* workgroup_size_split with the thread count rounded down, x / workgroup_size:
\* the dispatch would then miss the last x % workgroup_size elements.
workgroup_size_split_floor(x_, max_threads_, max_workgroup_size_, workgroup_size_) ==
    IF workgroup_size_ = Zero64
    THEN Panic("attempt to divide by zero")
    ELSE workgroup_size_checked(max_threads_, max_workgroup_size_, workgroup_size_,
                                AsU32(DivMod64(x_, workgroup_size_).quot))

\* `let threads = ceil(x, workgroup_size as u64) as _`, which divides by zero
\* when the group size was narrowed to 0.
workgroup_size_split(x_, max_threads_, max_workgroup_size_, workgroup_size_) ==
    IF workgroup_size_ = Zero64
    THEN Panic("attempt to divide by zero")
    ELSE workgroup_size_checked(max_threads_, max_workgroup_size_, workgroup_size_,
                                AsU32(ceil(x_, workgroup_size_)))

\* workgroup_size(x, max_threads, max_workgroup_size): max_threads and
\* max_workgroup_size are u32 given as TLC integers, x is a u64.
workgroup_size(x_, max_threads_, max_workgroup_size_) ==
    IF Lt64(Nat64(max_threads_), x_)
    THEN IF max_threads_ = 0 THEN Panic("attempt to divide by zero")
         ELSE workgroup_size_split(x_, max_threads_, max_workgroup_size_,
                                   AsU32(ceil(x_, Nat64(max_threads_))))
    ELSE Ok(<<AsU32(x_), Nat64(1)>>)

----------------------------------------------------------------------------
(* utils: Option, attributes, shapes and scalar types.                     *)

Some(v) == [some |-> TRUE, value |-> v]
None == [some |-> FALSE]

\* get_attribute(name, default, node): the attribute when the node has it,
\* else the default, else AttributeNotFound.
get_attribute(name, default, n) ==
    IF name \in DOMAIN n.attribute THEN Ok(n.attribute[name])
    ELSE IF default.some THEN Ok(default.value)
    ELSE Err("AttributeNotFound", <<name>>)

NoAttributes == [a \in {} |-> 0]

Shape(dims, data_type) == [dims |-> dims, data_type |-> data_type]

rank(shape) == Len(shape.dims)

\* Shape::dim(i), i counted from 0; the caller has checked i < rank.
dim(shape, i) == shape.dims[i + 1]

\* Shape::element_count: the product of the dims.
element_count(shape) == Product(shape.dims)

\* chunks_of taking each product from the dim itself on (dims[i-1..]).
chunks_of_inclusive(dims) ==
    [i \in 1..(IF Len(dims) = 0 THEN 1 ELSE Len(dims)) |->
        IF i >= Len(dims) THEN Nat64(1) ELSE Product(SubSeq(dims, i, Len(dims)))]

\* Shape::chunks: for i in 1..dims.len() push product(dims[i..]); push 1.
chunks_of(dims) ==
    [i \in 1..(IF Len(dims) = 0 THEN 1 ELSE Len(dims)) |->
        IF i >= Len(dims) THEN Nat64(1) ELSE Product(SubSeq(dims, i + 1, Len(dims)))]

chunks(shape) == chunks_of(shape.dims)

\* MultiType::for_size(n, scalar).elements(): the widest of 4, 2, 1 dividing n.
for_size_elements(n) ==
    IF n[1] % 4 = 0 THEN 4 ELSE IF n[1] % 2 = 0 THEN 2 ELSE 1

\* agreed_type: one pass over the shapes with the type seen so far.
RECURSIVE scan_types(_, _)
scan_types(shapes, data_type) ==
    IF shapes = <<>> THEN Ok(data_type)
    ELSE IF data_type.some /\ data_type.value # Head(shapes).data_type
    THEN Err("TypesDisagree", <<data_type.value, Head(shapes).data_type>>)
    ELSE scan_types(Tail(shapes), Some(Head(shapes).data_type))

\* `data_type.ok_or(CompileError::TypeUnderspecified)`
type_found(scanned) ==
    IF ~scanned.ok THEN scanned
    ELSE IF scanned.value.some THEN Ok(scanned.value.value)
    ELSE Err("TypeUnderspecified", <<>>)

\* The pass over the outputs, entered with the type the inputs left.
scan_outputs(after_inputs, outputs) ==
    IF ~after_inputs.ok THEN after_inputs
    ELSE type_found(scan_types(outputs, after_inputs.value))

\* agreed_type scanning the outputs before the inputs.
agreed_type_outputs_first(inputs, outputs) ==
    scan_outputs(scan_types(outputs, None), inputs)

agreed_type(inputs, outputs) == scan_outputs(scan_types(inputs, None), outputs)

----------------------------------------------------------------------------
(* compile: the environment bound for every operator.                      *)

input_lengths(shapes) == [i \in 1..Len(shapes) |-> element_count(shapes[i])]

base_context(n, ishapes, oshapes, opset) ==
    [i_lens |-> input_lengths(ishapes),
     o_lens |-> input_lengths(oshapes),
     i_shape |-> [i \in 1..Len(ishapes) |-> ishapes[i].dims],
     o_shape |-> [i \in 1..Len(oshapes) |-> oshapes[i].dims],
     i_chunks |-> [i \in 1..Len(ishapes) |-> chunks(ishapes[i])],
     o_chunks |-> [i \in 1..Len(oshapes) |-> chunks(oshapes[i])],
     op_type |-> n.op_type,
     opset_version |-> opset]

NoTemplate == [scalar_type |-> "none", template |-> "none", threads |-> <<>>]

\* What a match arm yields on success: the NodeTemplate and the variables it
\* inserted into the context.
Arm(scalar_type, template, threads, bind) ==
    Ok([node_template |-> [scalar_type |-> scalar_type, template |-> template,
                           threads |-> threads],
        bind |-> bind])

One == Nat64(1)

IndexPanic == Panic("index out of bounds")

----------------------------------------------------------------------------
(* compile: the match arms.                                                *)

\* OptimizedAwayOps without Flatten, as if the arm had forgotten it.
OptimizedAwayOpsWithoutFlatten == {"Reshape", "Dropout", "Identity", "Squeeze", "Unsqueeze"}

OptimizedAwayOps == {"Reshape", "Dropout", "Identity", "Flatten", "Squeeze", "Unsqueeze"}

MapOps == {"Abs", "Acos", "Asin", "Atan", "Ceil", "Cos", "Cosh", "Exp", "Floor",
           "Log", "Round", "Sign", "Sin", "Sinh", "Sqrt", "Tan", "Tanh", "Reciprocal"}

\* `NodeTemplate { scalar_type: agreed_type(..)?, template, threads }` with
\* the variables the arm inserted into the context.
typed_template(scalar_type, template, threads, bind) ==
    IF ~scalar_type.ok THEN scalar_type
    ELSE Arm(scalar_type.value, template, threads, bind)

\* The 1-D dispatch shared by the map, Cast, arithmetic and activation arms,
\* after `workgroup_size(ceil(output_lengths[0], 4), ...)?` returned wg.
elementwise_sized(wg, ishapes, type_outputs, template, bind) ==
    IF ~wg.ok THEN wg
    ELSE typed_template(agreed_type(ishapes, type_outputs), template,
                        <<wg.value[1], One, One>>,
                        bind @@ [workgroup_size_x |-> wg.value[2]])

elementwise_arm(ishapes, oshapes, type_outputs, template, bind) ==
    IF Len(oshapes) = 0 THEN IndexPanic
    ELSE elementwise_sized(
             workgroup_size(ceil(element_count(oshapes[1]), Nat64(4)),
                            MAX_COMPUTE_WORKGROUPS_PER_DIMENSION,
                            MAX_WORKGROUP_SIZE_X),
             ishapes, type_outputs, template, bind)

\* softmax_default_axis with the default of opset 11 and 12 taken for -1, the
\* change that only came with opset 13.
softmax_default_axis_early(opset) ==
    IF opset \in 1..10 THEN Some(1)
    ELSE IF opset \in 11..15 THEN Some(-1)
    ELSE None

\* Softmax: the axis the opset gives when the node has none.
softmax_default_axis(opset) ==
    IF opset \in 1..10 THEN Some(1)
    ELSE IF opset \in 11..12 THEN Some(1)
    ELSE IF opset \in 13..15 THEN Some(-1)
    ELSE None

\* Softmax: the axis after `if axis < 0 { ... }`.
softmax_axis(axis, opset, ishapes) ==
    IF axis < 0
    THEN IF opset >= 13 THEN Ok(axis + rank(ishapes[1]))
         ELSE Err("InvalidAttributeValue", <<"axis", axis, opset>>)
    ELSE Ok(axis)

\* Softmax from `if axis >= (input_shapes[0].rank() as i64)` on.
softmax_checked(axis, ishapes, oshapes, opset) ==
    IF ~axis.ok THEN axis
    ELSE IF Len(ishapes) = 0 THEN IndexPanic
    ELSE IF axis.value >= rank(ishapes[1])
    THEN Err("InvalidAttributeValue", <<"axis", axis.value, opset>>)
    ELSE IF axis.value # 1
    THEN Err("UnimplementedVariant", <<"Softmax", axis.value>>)
    ELSE typed_template(agreed_type(ishapes, oshapes), "endomorphism/softmax.wgsl",
                        <<One, One, One>>, NoAttributes)

\* Softmax from `let mut axis = get_attribute(...)?` on, with its value.
softmax_with(axis, ishapes, oshapes, opset) ==
    IF axis < 0 /\ opset >= 13 /\ Len(ishapes) = 0 THEN IndexPanic
    ELSE softmax_checked(softmax_axis(axis, opset, ishapes), ishapes, oshapes, opset)

softmax_arm(n, ishapes, oshapes, opset) ==
    IF ~softmax_default_axis(opset).some
    THEN Err("UnsupportedOpsetVersion", <<opset>>)
    ELSE softmax_with(get_attribute("axis", softmax_default_axis(opset), n).value,
                      ishapes, oshapes, opset)

ArithmeticOps == {"Add", "And", "Div", "Equal", "Greater", "GreaterOrEqual", "Less",
                  "LessOrEqual", "Mod", "Mul", "Or", "Sub"}

\* The infix operator the arithmetic arm rebinds op_type to.
infix_of(op) ==
    CASE op = "Add" -> "+" [] op = "And" -> "&" [] op = "Div" -> "/"
      [] op = "Equal" -> "==" [] op = "Greater" -> ">" [] op = "GreaterOrEqual" -> ">="
      [] op = "Less" -> "<" [] op = "LessOrEqual" -> "<=" [] op = "Mod" -> "%"
      [] op = "Mul" -> "*" [] op = "Or" -> "|" [] op = "Sub" -> "-"

arithmetic_arm(n, ishapes, oshapes) ==
    elementwise_arm(ishapes, oshapes, oshapes, "endomorphism/arithmetic.wgsl",
                    [coefficient |-> get_attribute("coefficient", Some("1.0"), n).value,
                     op_type |-> infix_of(n.op_type)])

ActivationOps == {"Relu", "Sigmoid", "Softsign", "Softplus", "Clip", "Celu", "Elu",
                  "LeakyRelu"}

activation_arm(n, ishapes, oshapes) ==
    elementwise_arm(ishapes, oshapes, oshapes, "endomorphism/activation.wgsl",
                    [alpha |-> get_attribute("alpha", Some("1.0"), n).value])

\* ScalarType::from_i32 on the ONNX data type code.
from_i32(code) ==
    CASE code = 1 -> Ok("F32") [] code = 6 -> Ok("I32") [] code = 7 -> Ok("I64")
      [] OTHER -> Err("InvalidType", <<code>>)

\* Cast after `ScalarType::from_i32(cast_to_type)?`.
cast_to(cast_to_type, ishapes, oshapes) ==
    IF ~cast_to_type.ok THEN cast_to_type
    ELSE elementwise_arm(ishapes, oshapes, <<>>, "endomorphism/cast.wgsl",
                         [cast_to_type |-> cast_to_type.value])

cast_arm(n, ishapes, oshapes) ==
    IF ~get_attribute("to", None, n).ok THEN get_attribute("to", None, n)
    ELSE cast_to(from_i32(get_attribute("to", None, n).value), ishapes, oshapes)

\* Concat: the running sums of the input lengths.
RECURSIVE cumulative(_, _)
cumulative(lens, sum) ==
    IF lens = <<>> THEN <<>>
    ELSE <<Add64(sum, Head(lens))>> \o cumulative(Tail(lens), Add64(sum, Head(lens)))

\* The extent a directly dispatching arm computes in 64 bits, before `as u32`.
direct_extent(oshapes, per_thread) == ceil(element_count(oshapes[1]), Nat64(per_thread))

\* `ceil(output_lengths[0], n) as u32`
direct_threads(oshapes, per_thread) == AsU32(direct_extent(oshapes, per_thread))

concat_arm(n, ishapes, oshapes) ==
    IF agreed_type(ishapes, oshapes).ok /\ Len(oshapes) = 0 THEN IndexPanic
    ELSE typed_template(agreed_type(ishapes, oshapes), "matrix/concat.wgsl",
                        <<direct_threads(oshapes, 256), One, One>>,
                        [cum_len |-> cumulative(input_lengths(ishapes), Zero64)])

----------------------------------------------------------------------------
(* Pooling and convolution.  i64 division truncates toward zero and the    *)
(* remainder takes the sign of the dividend.                               *)

div_i64(a, b) == IF a >= 0 THEN a \div b ELSE -((-a) \div b)
rem_i64(a, b) == a - b * div_i64(a, b)

slack(strides, kernel_shape, dilations, d) ==
    -strides[d] + ((kernel_shape[d] - 1) * dilations[d] + 1)

\* same_upper_pads with the remainder on the begin side, which is SAME_LOWER.
same_upper_pads_swapped(strides, kernel_shape, dilations) ==
    <<div_i64(slack(strides, kernel_shape, dilations, 1), 2)
        + rem_i64(slack(strides, kernel_shape, dilations, 1), 2),
      div_i64(slack(strides, kernel_shape, dilations, 2), 2)
        + rem_i64(slack(strides, kernel_shape, dilations, 2), 2),
      div_i64(slack(strides, kernel_shape, dilations, 1), 2),
      div_i64(slack(strides, kernel_shape, dilations, 2), 2)>>

same_upper_pads(strides, kernel_shape, dilations) ==
    LET slack_0 == slack(strides, kernel_shape, dilations, 1)
        slack_0_div_2 == div_i64(slack_0, 2)
        slack_rest_0 == rem_i64(slack_0, 2)
        slack_1 == slack(strides, kernel_shape, dilations, 2)
        slack_1_div_2 == div_i64(slack_1, 2)
        slack_rest_1 == rem_i64(slack_1, 2)
    IN  <<slack_0_div_2, slack_1_div_2,
          slack_0_div_2 + slack_rest_0, slack_1_div_2 + slack_rest_1>>

same_lower_pads(strides, kernel_shape, dilations) ==
    LET slack_0 == slack(strides, kernel_shape, dilations, 1)
        slack_0_div_2 == div_i64(slack_0, 2)
        slack_rest_0 == rem_i64(slack_0, 2)
        slack_1 == slack(strides, kernel_shape, dilations, 2)
        slack_1_div_2 == div_i64(slack_1, 2)
        slack_rest_1 == rem_i64(slack_1, 2)
    IN  <<slack_0_div_2 + slack_rest_0, slack_1_div_2 + slack_rest_1,
          slack_0_div_2, slack_1_div_2>>

\* `let pads = match auto_pad.as_str() { ... }`
resolve_pads(op, auto_pad, pads, strides, kernel_shape, dilations) ==
    CASE auto_pad = "NOTSET" -> Ok(pads)
      [] auto_pad = "SAME_UPPER" -> Ok(same_upper_pads(strides, kernel_shape, dilations))
      [] auto_pad = "SAME_LOWER" -> Ok(same_lower_pads(strides, kernel_shape, dilations))
      [] OTHER -> Err("UnimplementedVariant", <<op, "auto_pad", auto_pad>>)

PoolOps == {"MaxPool", "AveragePool", "GlobalAveragePool"}
ConvOps == {"Conv", "ConvRelu", "ConvLeakyRelu", "ConvMish"}

\* The template of a convolution and the elements one workgroup covers.
conv_template(strides, kernel_shape, dilations, pads, input_shape, output_shape) ==
    IF /\ strides = <<1, 1>>
       /\ kernel_shape = <<1, 1>>
       /\ dilations = <<1, 1>> /\ pads = <<0, 0, 0, 0>>
       /\ dim(input_shape, 1)[1] % 16 = 0
       /\ dim(output_shape, 1)[1] % 4 = 0
    THEN [template |-> "pool/conv_kernel_1.wgsl", per_thread |-> 1024]
    ELSE IF /\ strides = <<1, 1>>
            /\ kernel_shape = <<3, 3>>
            /\ dilations = <<1, 1>>
            /\ dim(output_shape, 1)[1] % 4 = 0
    THEN [template |-> "pool/conv_kernel_3.wgsl", per_thread |-> 1024]
    ELSE [template |-> "pool/conv.wgsl", per_thread |-> 256]

\* The variables the arm inserts once the pads are resolved.
pool_conv_bind(op, ishapes, oshapes, strides, kernel_shape, dilations, pads) ==
    [original_width |-> dim(ishapes[1], 3),
     width |-> dim(oshapes[1], 3),
     original_height |-> dim(ishapes[1], 2),
     channel |-> dim(ishapes[1], 1),
     stride |-> strides,
     kernel_shape |-> kernel_shape,
     kernel_len |-> kernel_shape[1] * kernel_shape[2],
     kernel_channel_len |->
         Mul64(Mul64(Nat64(kernel_shape[1]), Nat64(kernel_shape[2])),
               dim(ishapes[1], 1)),
     pad |-> pads,
     dilation |-> dilations]
    @@ (IF op = "GlobalAveragePool" THEN [op_type |-> "AveragePool"]
        ELSE NoAttributes)

\* The NodeTemplate of a convolution whose template has been chosen.
conv_chosen(chosen, n, ishapes, oshapes, bind) ==
    typed_template(agreed_type(ishapes, oshapes), chosen.template,
                   <<direct_threads(oshapes, chosen.per_thread), One, One>>,
                   [alpha |-> get_attribute("alpha", Some("0.01"), n).value] @@ bind)

\* `match op { "MaxPool" | "AveragePool" | "GlobalAveragePool" => ..,
\*             "Conv" | "ConvRelu" | "ConvLeakyRelu" | "ConvMish" => .. }`
pool_conv_select(op, n, ishapes, oshapes, strides, kernel_shape, dilations, pads) ==
    IF op \in PoolOps
    THEN typed_template(agreed_type(ishapes, SubSeq(oshapes, 1, 1)),
                        "pool/aggregate.wgsl",
                        <<direct_threads(oshapes, 1024), One, One>>,
                        pool_conv_bind(op, ishapes, oshapes, strides, kernel_shape,
                                       dilations, pads))
    ELSE conv_chosen(conv_template(strides, kernel_shape, dilations, pads,
                                   ishapes[1], oshapes[1]),
                     n, ishapes, oshapes,
                     pool_conv_bind(op, ishapes, oshapes, strides, kernel_shape,
                                    dilations, pads))

\* The arm from `let pads = match auto_pad.as_str()` on: the two assertions
\* on the kernel and the indexing of the output shape panic.
pool_conv_padded(op, n, ishapes, oshapes, strides, kernel_shape, dilations, pads) ==
    IF ~pads.ok THEN pads
    ELSE IF Len(oshapes) = 0 THEN IndexPanic
    ELSE IF Len(kernel_shape) < 2 THEN Panic("assertion failed")
    ELSE IF kernel_shape[1] < 0 \/ kernel_shape[2] < 0 THEN Panic("assertion failed")
    ELSE IF rank(oshapes[1]) < 4 THEN IndexPanic
    ELSE pool_conv_select(op, n, ishapes, oshapes, strides, kernel_shape, dilations,
                          pads.value)

\* The arm once the attributes are read.  Indexing strides, dilations or the
\* kernel for SAME_* pads panics when they are shorter than 2.
pool_conv_attributes(op, n, ishapes, oshapes, auto_pad, dilations, kernel_shape, strides, pads) ==
    IF ~kernel_shape.ok THEN kernel_shape
    ELSE IF /\ auto_pad \in {"SAME_UPPER", "SAME_LOWER"}
            /\ \/ Len(kernel_shape.value) < 2
               \/ Len(strides) < 2
               \/ Len(dilations) < 2
    THEN IndexPanic
    ELSE pool_conv_padded(op, n, ishapes, oshapes, strides, kernel_shape.value,
                          dilations,
                          resolve_pads(op, auto_pad, pads, strides, kernel_shape.value,
                                       dilations))

\* `let kernel_shape = if op == "GlobalAveragePool" { .. } else { .. }`
kernel_shape_of(op, n, ishapes) ==
    IF op = "GlobalAveragePool"
    THEN Ok(<<ToInt(dim(ishapes[1], 2)), ToInt(dim(ishapes[1], 3))>>)
    ELSE get_attribute("kernel_shape", None, n)

\* debug_assert!(input_shapes[0].rank() == 4): the arm is modelled for the
\* build that keeps the assertion.
pool_conv_arm(n, ishapes, oshapes) ==
    IF Len(ishapes) = 0 THEN IndexPanic
    ELSE IF rank(ishapes[1]) # 4 THEN Panic("assertion failed")
    ELSE pool_conv_attributes(
             n.op_type, n, ishapes, oshapes,
             get_attribute("auto_pad", Some("NOTSET"), n).value,
             get_attribute("dilations", Some(<<1, 1>>), n).value,
             kernel_shape_of(n.op_type, n, ishapes),
             get_attribute("strides", Some(<<1, 1>>), n).value,
             get_attribute("pads", Some(<<0, 0, 0, 0>>), n).value)

----------------------------------------------------------------------------
(* Gemm / MatMul and BatchNormalization.                                   *)

\* gemm_rejected without the test of broadcast.
gemm_rejected_without_broadcast(n) ==
    \/ get_attribute("transA", Some(0), n).value # 0
    \/ get_attribute("transB", Some(0), n).value # 0

\* `transpose_a != 0 || transpose_b != 0 || broadcast != 0`
gemm_rejected(n) ==
    \/ get_attribute("transA", Some(0), n).value # 0
    \/ get_attribute("transB", Some(0), n).value # 0
    \/ get_attribute("broadcast", Some(0), n).value # 0

\* The extent in 64 bits, before `as _` narrows it to u32.
gemm_extent(ishapes, oshapes) ==
    IF dim(ishapes[1], 0) = One
    THEN dim(oshapes[1], 1)
    ELSE DivMod64(Mul64(dim(ishapes[1], 0), dim(ishapes[2], 1)), Nat64(16)).quot

gemm_bind(n) ==
    [alpha |-> get_attribute("alpha", Some("1.0"), n).value,
     beta |-> get_attribute("beta", Some("1.0"), n).value]

\* `if input_shapes[0].dim(0) == 1 { .. } else { .. }`, entered with the
\* result of the agreed_type(..)? both branches start with.
gemm_typed(scalar_type, n, ishapes, oshapes) ==
    IF ~scalar_type.ok THEN scalar_type
    ELSE IF dim(ishapes[1], 0) = One
    THEN IF Len(oshapes) = 0 THEN IndexPanic
         ELSE IF rank(oshapes[1]) < 2 THEN IndexPanic
         ELSE Arm(scalar_type.value, "matrix/gemm_1.wgsl",
                  <<AsU32(gemm_extent(ishapes, oshapes)), One, One>>, gemm_bind(n))
    ELSE IF Len(ishapes) < 2 THEN IndexPanic
    ELSE IF rank(ishapes[2]) < 2 THEN IndexPanic
    ELSE Arm(scalar_type.value, "matrix/gemm.wgsl",
             <<AsU32(gemm_extent(ishapes, oshapes)), One, One>>, gemm_bind(n))

gemm_arm(n, ishapes, oshapes) ==
    IF n.op_type = "Gemm" /\ gemm_rejected(n)
    THEN Err("UnimplementedVariant", <<n.op_type, "transA/transB/broadcast">>)
    ELSE IF Len(ishapes) = 0 THEN IndexPanic
    ELSE IF rank(ishapes[1]) = 0 THEN IndexPanic
    ELSE gemm_typed(agreed_type(ishapes, oshapes), n, ishapes, oshapes)

\* (input_batches, input_channels, input_w, input_h) of a rank 3 or 4 input.
batchnorm_dims(shape) ==
    IF rank(shape) = 3
    THEN <<One, dim(shape, 0), dim(shape, 1), dim(shape, 2)>>
    ELSE <<dim(shape, 0), dim(shape, 1), dim(shape, 2), dim(shape, 3)>>

\* input_w * input_h
batchnorm_wh(d) == Mul64(d[3], d[4])

\* The extents (x, y, z) in 64 bits, before `as _` narrows them to u32.
batchnorm_extent_of(d, wh) == <<ceil(wh, Nat64(for_size_elements(wh))), d[2], d[1]>>

batchnorm_extent(shape) ==
    batchnorm_extent_of(batchnorm_dims(shape), batchnorm_wh(batchnorm_dims(shape)))

batchnorm_threads(extent) == <<AsU32(extent[1]), AsU32(extent[2]), AsU32(extent[3])>>

\* The arm once the dims d are named and wh = input_w * input_h.
batchnorm_shaped(n, ishapes, oshapes, d, wh) ==
    IF d[1] = Zero64 \/ d[2] = Zero64
    THEN Err("InvalidInputShape", <<0, ishapes[1]>>)
    ELSE IF Len(oshapes) = 0 THEN IndexPanic
    ELSE typed_template(
             agreed_type(SubSeq(ishapes, 1, 1), SubSeq(oshapes, 1, 1)),
             "endomorphism/batchnormalization.wgsl",
             batchnorm_threads(batchnorm_extent_of(d, wh)),
             [elem_type |-> <<"F32", for_size_elements(wh)>>,
              elem_stride |-> 4 * for_size_elements(wh),
              epsilon |-> get_attribute("epsilon", Some("1e-05"), n).value,
              batch_size |-> ceil(Mul64(d[2], wh), Nat64(for_size_elements(wh))),
              channel_size |-> ceil(wh, Nat64(for_size_elements(wh)))])

\* batchnorm_arm with `rank() <= 2 || rank() > 3`: rank 4 refused as well.
batchnorm_arm_refusing_rank_4(n, ishapes, oshapes, opset) ==
    IF "spatial" \in DOMAIN n.attribute
    THEN IF opset < 9
         THEN Err("UnimplementedVariant", <<"BatchNormalization", "spatial">>)
         ELSE Err("InvalidAttributeValue", <<"spatial", n.attribute["spatial"], opset>>)
    ELSE IF Len(ishapes) = 0 THEN IndexPanic
    ELSE IF rank(ishapes[1]) <= 2 \/ rank(ishapes[1]) > 3
    THEN Err("UnimplementedVariant", <<"BatchNormalization", "with input", ishapes[1]>>)
    ELSE batchnorm_shaped(n, ishapes, oshapes, batchnorm_dims(ishapes[1]),
                          batchnorm_wh(batchnorm_dims(ishapes[1])))

\* batchnorm_arm with the rank test moved before the test of spatial.
batchnorm_arm_rank_first(n, ishapes, oshapes, opset) ==
    IF Len(ishapes) = 0 THEN IndexPanic
    ELSE IF rank(ishapes[1]) <= 2 \/ rank(ishapes[1]) > 4
    THEN Err("UnimplementedVariant", <<"BatchNormalization", "with input", ishapes[1]>>)
    ELSE IF "spatial" \in DOMAIN n.attribute
    THEN IF opset < 9
         THEN Err("UnimplementedVariant", <<"BatchNormalization", "spatial">>)
         ELSE Err("InvalidAttributeValue", <<"spatial", n.attribute["spatial"], opset>>)
    ELSE batchnorm_shaped(n, ishapes, oshapes, batchnorm_dims(ishapes[1]),
                          batchnorm_wh(batchnorm_dims(ishapes[1])))

batchnorm_arm(n, ishapes, oshapes, opset) ==
    IF "spatial" \in DOMAIN n.attribute
    THEN IF opset < 9
         THEN Err("UnimplementedVariant", <<"BatchNormalization", "spatial">>)
         ELSE Err("InvalidAttributeValue", <<"spatial", n.attribute["spatial"], opset>>)
    ELSE IF Len(ishapes) = 0 THEN IndexPanic
    ELSE IF rank(ishapes[1]) <= 2 \/ rank(ishapes[1]) > 4
    THEN Err("UnimplementedVariant", <<"BatchNormalization", "with input", ishapes[1]>>)
    ELSE batchnorm_shaped(n, ishapes, oshapes, batchnorm_dims(ishapes[1]),
                          batchnorm_wh(batchnorm_dims(ishapes[1])))

----------------------------------------------------------------------------
(* Reductions, OneHot, Gather.                                             *)

ReduceOps == {"ReduceMean", "ReduceSum", "ReduceMax", "ReduceMin", "ReduceProd",
              "ReduceL1", "ReduceL2", "ReduceLogSum", "ReduceLogSumExp",
              "ReduceSumSquare"}

\* The axes attribute (default 0..rank-1) with rank added to negative entries.
normalized_axes(given, shape) ==
    [k \in 1..Len(given) |-> IF given[k] < 0 THEN rank(shape) + given[k] ELSE given[k]]

reduce_axes(n, shape) ==
    normalized_axes(
        get_attribute("axes", Some([i \in 1..rank(shape) |-> i - 1]), n).value, shape)

\* dims_removed leaving the reduced dims out instead of setting them to 1.
dims_dropped(shape, axes) ==
    SelectSeq([i \in 1..rank(shape) |->
                  IF \E k \in 1..Len(axes) : axes[k] = i - 1 THEN Zero64 ELSE shape.dims[i]],
              LAMBDA d : d # Zero64)

\* The input dims with every reduced dim replaced by 1.
dims_removed(shape, axes) ==
    [i \in 1..rank(shape) |->
        IF \E k \in 1..Len(axes) : axes[k] = i - 1 THEN One ELSE shape.dims[i]]

\* The reduction after `workgroup_size(output_lengths[0], ...)?` returned wg.
reduce_sized(wg, scalar_type, ishapes, axes) ==
    IF ~wg.ok THEN wg
    ELSE Arm(scalar_type.value, "pool/reduce.wgsl", <<wg.value[1], One, One>>,
             [workgroup_size_x |-> wg.value[2],
              chunks_with_dims_preserved |-> chunks_of(dims_removed(ishapes[1], axes)),
              axes |-> axes])

\* The reduction after `agreed_type(&input_shapes[0..1], output_shapes)?`.
reduce_typed(scalar_type, ishapes, oshapes, axes) ==
    IF ~scalar_type.ok THEN scalar_type
    ELSE IF Len(oshapes) = 0 THEN IndexPanic
    ELSE reduce_sized(workgroup_size(element_count(oshapes[1]),
                                     MAX_COMPUTE_WORKGROUPS_PER_DIMENSION,
                                     MAX_WORKGROUP_SIZE_X),
                      scalar_type, ishapes, axes)

reduce_arm(n, ishapes, oshapes) ==
    IF Len(ishapes) = 0 THEN IndexPanic
    ELSE reduce_typed(agreed_type(SubSeq(ishapes, 1, 1), oshapes), ishapes, oshapes,
                      reduce_axes(n, ishapes[1]))

\* OneHot after `workgroup_size(input_lengths[0], ...)?` returned wg.
onehot_sized(wg, oshapes) ==
    IF ~wg.ok THEN wg
    ELSE IF Len(oshapes) = 0 THEN IndexPanic
    ELSE Arm(oshapes[1].data_type, "endomorphism/onehot.wgsl",
             <<wg.value[1], One, One>>, [workgroup_size_x |-> wg.value[2]])

\* onehot_on with the test of the values input before that of the depth input.
onehot_on_values_first(axis, ishapes, oshapes) ==
    IF axis # -1 THEN Err("UnimplementedVariant", <<"OneHot", "axis", axis>>)
    ELSE IF Len(ishapes) < 3 THEN IndexPanic
    ELSE IF element_count(ishapes[3]) # Nat64(2)
    THEN Err("InvalidInputShape", <<2, ishapes[3]>>)
    ELSE IF element_count(ishapes[2]) # One
    THEN Err("InvalidInputShape", <<1, ishapes[2]>>)
    ELSE onehot_sized(workgroup_size(element_count(ishapes[1]),
                                     MAX_COMPUTE_WORKGROUPS_PER_DIMENSION,
                                     MAX_WORKGROUP_SIZE_X),
                      oshapes)

\* OneHot once the axis attribute is read.
onehot_on(axis, ishapes, oshapes) ==
    IF axis # -1 THEN Err("UnimplementedVariant", <<"OneHot", "axis", axis>>)
    ELSE IF Len(ishapes) < 2 THEN IndexPanic
    ELSE IF element_count(ishapes[2]) # One
    THEN Err("InvalidInputShape", <<1, ishapes[2]>>)
    ELSE IF Len(ishapes) < 3 THEN IndexPanic
    ELSE IF element_count(ishapes[3]) # Nat64(2)
    THEN Err("InvalidInputShape", <<2, ishapes[3]>>)
    ELSE onehot_sized(workgroup_size(element_count(ishapes[1]),
                                     MAX_COMPUTE_WORKGROUPS_PER_DIMENSION,
                                     MAX_WORKGROUP_SIZE_X),
                      oshapes)

onehot_arm(n, ishapes, oshapes) ==
    onehot_on(get_attribute("axis", Some(-1), n).value, ishapes, oshapes)

\* Gather after both calls of workgroup_size.
gather_sized(wg_x, wg_y, scalar_type, chunk_size_) ==
    IF ~wg_y.ok THEN wg_y
    ELSE Arm(scalar_type.value, "endomorphism/gather.wgsl",
             <<wg_x.value[1], wg_y.value[1], One>>,
             [chunk_type |-> <<scalar_type.value, chunk_size_>>,
              chunk_size |-> chunk_size_,
              workgroup_size_x |-> wg_x.value[2],
              workgroup_size_y |-> wg_y.value[2]])

\* Gather after `workgroup_size(input_lengths[1], ...)?` returned wg_x.
gather_indexed(wg_x, scalar_type, elements_per_index, chunk_size_) ==
    IF ~wg_x.ok THEN wg_x
    ELSE gather_sized(wg_x,
                      workgroup_size(ceil(elements_per_index, Nat64(chunk_size_)),
                                     MAX_COMPUTE_WORKGROUPS_PER_DIMENSION,
                                     MAX_WORKGROUP_SIZE_Y),
                      scalar_type, chunk_size_)

\* Gather once elements_per_index = input_chunks[0][0] and the type are known.
gather_typed(scalar_type, elements_per_index, ishapes) ==
    IF ~scalar_type.ok THEN scalar_type
    ELSE IF Len(ishapes) < 2 THEN IndexPanic
    ELSE gather_indexed(workgroup_size(element_count(ishapes[2]),
                                       MAX_COMPUTE_WORKGROUPS_PER_DIMENSION,
                                       MAX_WORKGROUP_SIZE_X),
                        scalar_type, elements_per_index,
                        for_size_elements(elements_per_index))

gather_arm(n, ishapes, oshapes) ==
    IF get_attribute("axis", Some(0), n).value # 0
    THEN Err("UnimplementedVariant",
             <<"Gather", "axis", get_attribute("axis", Some(0), n).value>>)
    ELSE IF Len(ishapes) = 0 THEN IndexPanic
    ELSE gather_typed(agreed_type(SubSeq(ishapes, 1, 1), oshapes),
                      chunks(ishapes[1])[1], ishapes)

----------------------------------------------------------------------------
(* Resize, Split, Transpose.                                               *)

CoordinateModes == {"half_pixel", "pytorch_half_pixel", "align_corners", "asymmetric",
                    "tf_crop_and_resize"}

\* The scales the template prints: the scales attribute, or each size over
\* the input dim of the same index (kept as the pair, the quotient is a float).
scales_of(scales, sizes, ishapes) ==
    IF scales = <<>>
    THEN [i \in 1..Len(sizes) |-> <<sizes[i], dim(ishapes[1], i - 1)>>]
    ELSE scales

resize_scales(n, ishapes) ==
    scales_of(get_attribute("scales", Some(<<>>), n).value,
              get_attribute("sizes", Some(<<>>), n).value, ishapes)

\* The variables the Resize arm inserts.
resize_bind(n, ishapes, ctm, roi, mode) ==
    [coordinate_transformation_mode |-> ctm,
     mode |-> mode,
     scales |-> resize_scales(n, ishapes),
     exclude_outside |-> get_attribute("exclude_outside", Some(0), n).value]
    @@ (IF ctm = "tf_crop_and_resize"
        THEN [roi |-> roi.value,
              extrapolation_value |->
                  get_attribute("extrapolation_value", Some("0.0"), n).value]
        ELSE NoAttributes)

\* Resize once the attributes are read.
resize_with(n, ishapes, oshapes, ctm, roi, scales, sizes, mode, nearest_mode) ==
    IF ctm \notin CoordinateModes
    THEN Err("UnimplementedVariant", <<"Resize", "coordinate_transformation_mode", ctm>>)
    ELSE IF ctm = "tf_crop_and_resize" /\ ~roi.ok THEN roi
    ELSE IF scales = <<>> /\ sizes # <<>>
            /\ (Len(ishapes) = 0 \/ Len(sizes) > rank(ishapes[1]))
    THEN IndexPanic
    ELSE IF mode = "nearest" /\ nearest_mode # "floor"
    THEN Err("UnimplementedVariant", <<"Resize", "nearest_mode", nearest_mode>>)
    ELSE IF mode # "nearest"
    THEN Err("UnimplementedVariant", <<"Resize", "mode", mode>>)
    ELSE IF Len(ishapes) = 0 \/ Len(oshapes) = 0 THEN IndexPanic
    ELSE typed_template(agreed_type(SubSeq(ishapes, 1, 1), SubSeq(oshapes, 1, 1)),
                        "matrix/resize.wgsl",
                        <<direct_threads(oshapes, 256), One, One>>,
                        resize_bind(n, ishapes, ctm, roi, mode))

\* resize_arm with "floor" as the default of nearest_mode.
resize_arm_defaulting_to_floor(n, ishapes, oshapes) ==
    resize_with(n, ishapes, oshapes,
                get_attribute("coordinate_transformation_mode", Some("half_pixel"),
                              n).value,
                get_attribute("roi", None, n),
                get_attribute("scales", Some(<<>>), n).value,
                get_attribute("sizes", Some(<<>>), n).value,
                get_attribute("mode", Some("nearest"), n).value,
                get_attribute("nearest_mode", Some("floor"), n).value)

resize_arm(n, ishapes, oshapes) ==
    resize_with(n, ishapes, oshapes,
                get_attribute("coordinate_transformation_mode", Some("half_pixel"),
                              n).value,
                get_attribute("roi", None, n),
                get_attribute("scales", Some(<<>>), n).value,
                get_attribute("sizes", Some(<<>>), n).value,
                get_attribute("mode", Some("nearest"), n).value,
                get_attribute("nearest_mode", Some("round_prefer_floor"), n).value)

\* axis_from with the rank of input 0 added to a negative axis.
axis_from_rank(axis, ishapes) ==
    IF axis < 0 THEN axis + rank(ishapes[1]) ELSE axis

\* Split: `if axis < 0 { axis += input_shapes[0].element_count() as i64 }`,
\* for element counts below 2^31.
axis_from(axis, ishapes) ==
    IF axis < 0 THEN axis + ToInt(element_count(ishapes[1])) ELSE axis

split_axis(n, ishapes) == axis_from(get_attribute("axis", Some(0), n).value, ishapes)

\* split_by with start offsets: (0..output_shapes.len()).map(|x| x * split_chunk)
split_by_starts(split_chunk, outputs) ==
    [k \in 1..outputs |-> Mul64(Nat64(k - 1), split_chunk)]

\* Split: (1..=output_shapes.len()).map(|x| x * split_chunk)
split_by(split_chunk, outputs) == [k \in 1..outputs |-> Mul64(Nat64(k), split_chunk)]

default_split(shape, axis, outputs) ==
    split_by(DivMod64(dim(shape, axis), Nat64(outputs)).quot, outputs)

\* Split once the axis is normalized.
split_on(axis, n, ishapes, oshapes) ==
    IF axis < 0 \/ axis >= rank(ishapes[1]) THEN IndexPanic
    ELSE IF Len(oshapes) = 0 THEN Panic("attempt to divide by zero")
    ELSE typed_template(
             agreed_type(SubSeq(ishapes, 1, 1), SubSeq(oshapes, 1, 1)),
             "matrix/split.wgsl",
             <<direct_threads(oshapes, 256), One, One>>,
             [axis |-> axis,
              split |-> get_attribute("split",
                            Some(default_split(ishapes[1], axis, Len(oshapes))),
                            n).value])

split_arm(n, ishapes, oshapes) ==
    IF Len(ishapes) = 0 THEN IndexPanic
    ELSE split_on(split_axis(n, ishapes), n, ishapes, oshapes)

\* Transpose: `((input_lengths[0] as i64)..0).collect::<Vec<_>>()`.  Below
\* 2^63 the start is not negative and the range is empty.  From 2^63 on the
\* cast is negative and the range has 2^64 - length elements: collecting it
\* panics (capacity overflow; for the few lengths next to 2^64 the Vec is
\* built and dim() panics on its negative entries).
default_perm(length) ==
    IF length[4] < 2^15 THEN Ok(<<>>) ELSE Panic("capacity overflow")

\* The perm attribute, or the default once it was built.
transpose_perms(n) == get_attribute("perm", Some(<<>>), n).value

\* Transpose once perm is read.
transpose_by(perms, ishapes, oshapes) ==
    IF perms # <<>> /\ Len(oshapes) = 0 THEN IndexPanic
    ELSE IF \E k \in 1..Len(perms) : perms[k] < 0 \/ perms[k] >= rank(oshapes[1])
    THEN IndexPanic
    ELSE IF agreed_type(ishapes, oshapes).ok /\ Len(oshapes) = 0 THEN IndexPanic
    ELSE typed_template(
             agreed_type(ishapes, oshapes), "matrix/transpose.wgsl",
             <<direct_threads(oshapes, 256), One, One>>,
             [permuted_chunks |->
                 chunks_of([k \in 1..Len(perms) |-> dim(oshapes[1], perms[k])])])

transpose_arm(n, ishapes, oshapes) ==
    IF Len(ishapes) = 0 THEN IndexPanic
    ELSE IF ~default_perm(element_count(ishapes[1])).ok
    THEN default_perm(element_count(ishapes[1]))
    ELSE transpose_by(transpose_perms(n), ishapes, oshapes)

----------------------------------------------------------------------------
(* compile: the match, the limit checks and the rendering.                 *)

\* `let node_template: NodeTemplate = match node.get_op_type() { ... }`
select_template(n, ishapes, oshapes, opset) ==
    LET op == n.op_type
    IN  CASE op \in OptimizedAwayOps -> Err("InvalidOperation", <<op>>)
          [] op \in MapOps -> elementwise_arm(ishapes, oshapes, oshapes,
                                             "endomorphism/map.wgsl", NoAttributes)
          [] op \in ReduceOps -> reduce_arm(n, ishapes, oshapes)
          [] op = "OneHot" -> onehot_arm(n, ishapes, oshapes)
          [] op = "Gather" -> gather_arm(n, ishapes, oshapes)
          [] op = "Cast" -> cast_arm(n, ishapes, oshapes)
          [] op = "Softmax" -> softmax_arm(n, ishapes, oshapes, opset)
          [] op \in ArithmeticOps -> arithmetic_arm(n, ishapes, oshapes)
          [] op = "BatchNormalization" -> batchnorm_arm(n, ishapes, oshapes, opset)
          [] op \in ActivationOps -> activation_arm(n, ishapes, oshapes)
          [] op = "Concat" -> concat_arm(n, ishapes, oshapes)
          [] op \in PoolOps \cup ConvOps -> pool_conv_arm(n, ishapes, oshapes)
          [] op \in {"Gemm", "MatMul"} -> gemm_arm(n, ishapes, oshapes)
          [] op = "Resize" -> resize_arm(n, ishapes, oshapes)
          [] op = "Sum" -> Err("UnimplementedOp", <<"Sum">>)
          [] op = "Split" -> split_arm(n, ishapes, oshapes)
          [] op = "Transpose" -> transpose_arm(n, ishapes, oshapes)
          [] OTHER -> Err("UnimplementedOp", <<op>>)

\* One comparison of the limit checks.
over_limit(threads) == Lt64(Nat64(MAX_COMPUTE_WORKGROUPS_PER_DIMENSION), threads)

\* "Check if we remain within the limits of the thread count allowed by WebGPU"
check_limits(threads) ==
    IF over_limit(threads[1])
    THEN Err("ComputeLimitExceeded",
             <<"X threads", threads[1], MAX_COMPUTE_WORKGROUPS_PER_DIMENSION>>)
    ELSE IF over_limit(threads[2])
    THEN Err("ComputeLimitExceeded",
             <<"Y threads", threads[2], MAX_COMPUTE_WORKGROUPS_PER_DIMENSION>>)
    ELSE IF over_limit(threads[3])
    THEN Err("ComputeLimitExceeded",
             <<"Z threads", threads[3], MAX_COMPUTE_WORKGROUPS_PER_DIMENSION>>)
    ELSE Ok(threads)

\* The names registered in TEMPLATES.
TEMPLATES ==
    {"endomorphism/activation.wgsl", "endomorphism/arithmetic.wgsl",
     "endomorphism/batchnormalization.wgsl", "endomorphism/softmax.wgsl",
     "endomorphism/map.wgsl", "endomorphism/cast.wgsl", "matrix/concat.wgsl",
     "matrix/gemm_1.wgsl", "matrix/gemm.wgsl", "matrix/resize.wgsl",
     "matrix/split.wgsl", "matrix/transpose.wgsl", "pool/aggregate.wgsl",
     "pool/conv_kernel_1.wgsl", "pool/conv_kernel_3.wgsl", "pool/conv.wgsl",
     "pool/reduce.wgsl", "structs.wgsl", "snippets/activation_vec.wgsl",
     "snippets/activation_scalar.wgsl", "endomorphism/gather.wgsl",
     "endomorphism/onehot.wgsl"}

\* The strides bound after the selection (f32, i32: 4 bytes; i64: 8).
scalar_stride(scalar_type) == IF scalar_type = "I64" THEN 8 ELSE 4

scalar_bindings(scalar_type) ==
    [scalar_type |-> scalar_type,
     scalar_stride |-> scalar_stride(scalar_type),
     vec4_stride |-> 4 * scalar_stride(scalar_type),
     mat4x4_stride |-> 16 * scalar_stride(scalar_type),
     mat3x3_stride |-> 48]

\* TEMPLATES.render(template, &context).expect("failed to render shader"): the
\* shader is the template with the context substituted.
render(template, ctx) ==
    IF template \in TEMPLATES
    THEN Ok([template |-> template, scalar_type |-> ctx.scalar_type])
    ELSE Panic("failed to render shader")

\* The value compile returns once the shader is rendered.
compiled(shader, threads) ==
    IF shader.ok THEN Ok([shader |-> shader.value, threads |-> threads]) ELSE shader

\* compile after the limit checks.
compile_rendered(checked, chosen) ==
    IF ~checked.ok THEN checked
    ELSE compiled(render(chosen.template, scalar_bindings(chosen.scalar_type)),
                  chosen.threads)

\* compile after the match.
compile_selected(arm) ==
    IF ~arm.ok THEN arm
    ELSE compile_rendered(check_limits(arm.value.node_template.threads),
                          arm.value.node_template)

\* compile(node, input_shapes, output_shapes, opset_version): the value returned.
compile(n, ishapes, oshapes, opset) ==
    compile_selected(select_template(n, ishapes, oshapes, opset))

\* The op names that have an arm of their own in the match (Sum's arm only
\* returns UnimplementedOp).
ListedOps ==
    OptimizedAwayOps \cup MapOps \cup ReduceOps \cup ArithmeticOps \cup ActivationOps
    \cup PoolOps \cup ConvOps
    \cup {"OneHot", "Gather", "Cast", "Softmax", "BatchNormalization", "Concat",
          "Gemm", "MatMul", "Resize", "Sum", "Split", "Transpose"}

----------------------------------------------------------------------------
(* The steps of one call of compile.                                       *)

\* The match returned arm: keep its NodeTemplate and variables, or return its
\* error.
Selected(arm, base) ==
    IF arm.ok
    THEN /\ node_template' = arm.value.node_template
         /\ context' = arm.value.bind @@ base
         /\ pc' = "limits"
         /\ UNCHANGED result
    ELSE /\ result' = arm
         /\ context' = base
         /\ pc' = "done"
         /\ UNCHANGED node_template

\* Lines 228-962: bind the common environment and run the match.
Select ==
    /\ pc = "compile"
    /\ Selected(select_template(node, input_shapes, output_shapes, opset_version),
                base_context(node, input_shapes, output_shapes, opset_version))
    /\ UNCHANGED <<node, input_shapes, output_shapes, opset_version,
                   x, max_threads, max_workgroup_size, registry, calls, once,
                   array, data, chunk_size, padding_size>>

\* Lines 964-985.
CheckLimits ==
    /\ pc = "limits"
    /\ IF check_limits(node_template.threads).ok
       THEN pc' = "render" /\ UNCHANGED result
       ELSE pc' = "done" /\ result' = check_limits(node_template.threads)
    /\ UNCHANGED <<node, input_shapes, output_shapes, opset_version, context,
                   node_template, x, max_threads, max_workgroup_size, registry, calls, once,
                   array, data, chunk_size, padding_size>>

\* Lines 987-1008.
Render ==
    /\ pc = "render"
    /\ context' = scalar_bindings(node_template.scalar_type) @@ context
    /\ result' = compiled(render(node_template.template,
                                 scalar_bindings(node_template.scalar_type) @@ context),
                          node_template.threads)
    /\ pc' = "done"
    /\ registry' = TEMPLATES
    /\ once' = "complete"
    /\ UNCHANGED <<node, input_shapes, output_shapes, opset_version,
                   node_template, x, max_threads, max_workgroup_size, calls,
                   array, data, chunk_size, padding_size>>

Next == Select \/ CheckLimits \/ Render

\* A caller applies workgroup_size to (x, max_threads, max_workgroup_size).
CallWorkgroupSize ==
    /\ pc = "workgroup_size"
    /\ result' = workgroup_size(x, max_threads, max_workgroup_size)
    /\ pc' = "returned"
    /\ UNCHANGED <<node, input_shapes, output_shapes, opset_version, context,
                   node_template, x, max_threads, max_workgroup_size, registry, calls, once,
                   array, data, chunk_size, padding_size>>

----------------------------------------------------------------------------
(* The calls checked: nodes, shapes and opset versions drawn from bounded  *)
(* sets, one per operator family.                                          *)

MaxOpset == 17       \* opset versions -1..MaxOpset
MaxAxis == 5         \* Softmax axis attributes -MaxAxis..MaxAxis
MaxKernel == 3       \* kernel sizes 1..MaxKernel
MaxStride == 3       \* strides 1..MaxStride
MaxDilation == 2     \* dilations 1..MaxDilation
MaxSmallThreads == 4 \* workgroup_size with max_threads in 1..MaxSmallThreads
MaxSmallGroup == 3   \* ... and max_workgroup_size in 1..MaxSmallGroup
MaxCalls == 3        \* calls of compile in flight at once

\* The dims of small shapes, written as TLC integers.
Dims(s) == [i \in 1..Len(s) |-> Nat64(s[i])]

Node(op, attribute) == [op_type |-> op, attribute |-> attribute]

\* The state at the call of compile(n, ishapes, oshapes, opset).
Call(n, ishapes, oshapes, opset) ==
    /\ node = n
    /\ input_shapes = ishapes
    /\ output_shapes = oshapes
    /\ opset_version = opset
    /\ pc = "compile"
    /\ context = NoAttributes
    /\ node_template = NoTemplate
    /\ x = Zero64
    /\ max_threads = 0
    /\ max_workgroup_size = 0
    /\ result = NoResult
    /\ registry = {}
    /\ once = "incomplete"
    /\ array = <<>>
    /\ data = <<>>
    /\ chunk_size = 0
    /\ padding_size = 0
    /\ calls = <<>>

\* The other type, for shapes that disagree.
OtherType(agree) == IF agree THEN "F32" ELSE "I64"

\* Op names of nodes compile does not implement: those an earlier graph pass
\* removes, Sum, and names outside every family; with shape lists that may be
\* empty.
InitUnimplemented ==
    \E op \in
           ({"Reshape", "Dropout", "Identity", "Flatten", "Squeeze", "Unsqueeze",
            "Sum", "LSTM", "Foo", "", "abs", "Softmax2", "Conv2D"}),
       shapes \in {<<>>, <<Shape(Dims(<<2, 3>>), "F32")>>, <<Shape(<<>>, "I64")>>},
       opset \in {1, 13} :
        Call(Node(op, NoAttributes), shapes, shapes, opset)

\* Output dims of the elementwise families: empty tensors, the scenarios of
\* the specification, the limits of the workgroup solver and lengths whose
\* quotient by 4 needs more than 32 bits.  Cast has two inputs, the types it
\* compares, and its `to` attribute absent (0 below), valid or unknown.
InitElementwise ==
    \E op \in MapOps \cup ArithmeticOps \cup ActivationOps \cup {"Cast"},
       dims \in
              ({Dims(<<0>>), Dims(<<2, 3>>), Dims(<<1, 1, 1, 1024>>),
               Dims(<<4, 65535, 256>>), Dims(<<4 * 65535 * 256 + 1>>),
               <<Nat64(4), Nat64(65535), Big64(1, 1)>>,
               <<Nat64(4), Nat64(65535), Big64(1, 0)>>,
               <<Big64(4, 0)>>}),
       agree \in BOOLEAN, to \in {0, 1, 6, 99} :
        /\ op = "Cast" \/ to = 0
        /\ Call(Node(op, IF to = 0 THEN NoAttributes ELSE [to |-> to]),
                IF op \in ArithmeticOps
                THEN <<Shape(dims, "F32"), Shape(dims, "F32")>>
                ELSE IF op = "Cast"
                THEN <<Shape(dims, "F32"), Shape(dims, OtherType(agree))>>
                ELSE <<Shape(dims, "F32")>>,
                <<Shape(dims, IF op = "Cast" THEN "I32" ELSE OtherType(agree))>>, 13)

InitSoftmax ==
    \E opset \in -1..MaxOpset, has_axis \in BOOLEAN, axis \in -MaxAxis..MaxAxis,
       io \in
              ({<<Shape(Dims(<<4>>), "F32"), Shape(Dims(<<4>>), "F32")>>,
               <<Shape(Dims(<<1, 4>>), "F32"), Shape(Dims(<<1, 4>>), "F32")>>,
               <<Shape(Dims(<<1, 4>>), "F32"), Shape(Dims(<<1, 4>>), "I64")>>,
               <<Shape(Dims(<<2, 3>>), "F32"), Shape(Dims(<<2, 3>>), "F32")>>,
               <<Shape(Dims(<<1, 2, 3>>), "F32"), Shape(Dims(<<1, 2, 3>>), "F32")>>,
               <<Shape(Dims(<<1, 1, 2, 3>>), "F32"), Shape(Dims(<<1, 1, 2, 3>>), "F32")>>}) :
        /\ has_axis \/ axis = 0
        /\ Call(Node("Softmax", IF has_axis THEN [axis |-> axis] ELSE NoAttributes),
                <<io[1]>>, <<io[2]>>, opset)

\* Concat: up to three inputs; the last outputs have more than 2^40 elements.
InitConcat ==
    \E dims \in
           ({<<Dims(<<2>>), Dims(<<3>>), Dims(<<5>>)>>,
            <<Dims(<<2, 2>>), Dims(<<2, 3>>), Dims(<<2, 5>>)>>,
            <<Dims(<<0>>), Dims(<<3>>), Dims(<<3>>)>>,
            <<Dims(<<65535, 128>>), Dims(<<65535, 128>>), Dims(<<65535, 256>>)>>,
            <<Dims(<<65535, 128>>), Dims(<<65535, 128>>), Dims(<<1>>),
            Dims(<<65535 * 256 + 1>>)>>,
            <<<<Big64(128, 0)>>, <<Big64(128, 1)>>, <<Big64(256, 1)>>>>,
            <<<<Big64(128, 0)>>, <<Big64(128, 0)>>, <<Big64(256, 0)>>>>}),
       agree \in BOOLEAN :
        Call(Node("Concat", [axis |-> 0]),
             [i \in 1..(Len(dims) - 1) |-> Shape(dims[i], "F32")],
             <<Shape(dims[Len(dims)], OtherType(agree))>>, 13)

\* Pooling and convolution over a [1, C, 8, 8] input.
ConvShape(channels, data_type) == Shape(Dims(<<1, channels, 8, 8>>), data_type)

ConvAttributes(auto_pad, kernel_shape, strides, dilations, has_pads, pads) ==
    [auto_pad |-> auto_pad, kernel_shape |-> kernel_shape, strides |-> strides,
     dilations |-> dilations]
    @@ (IF has_pads THEN [pads |-> pads] ELSE NoAttributes)

\* Pooling and convolution calls of three kinds.
InitConv ==
    \* Every kernel, stride and dilation of the first spatial dim within the
    \* bounds, under each auto_pad, with and without a pads attribute.
    \/ \E op \in {"Conv", "MaxPool"},
          auto_pad \in {"NOTSET", "SAME_UPPER", "SAME_LOWER", "VALID"},
          k0 \in 1..MaxKernel, k1 \in {1, 3},
          s0 \in 1..MaxStride, s1 \in {1, 2},
          d0 \in 1..MaxDilation, has_pads \in BOOLEAN :
           Call(Node(op, ConvAttributes(auto_pad, <<k0, k1>>, <<s0, s1>>, <<d0, 1>>,
                                        has_pads, <<1, 0, 2, 0>>)),
                <<ConvShape(16, "F32")>>, <<ConvShape(4, "F32")>>, 13)
    \* Every pooling and convolution op on the shapes the template choice reads.
    \/ \E op \in PoolOps \cup ConvOps,
          auto_pad \in {"NOTSET", "SAME_UPPER"},
          kernel_shape \in {<<1, 1>>, <<3, 3>>},
          channels \in {<<16, 4>>, <<16, 3>>, <<8, 4>>, <<3, 3>>},
          pads \in {<<>>, <<0, 0, 0, 0>>, <<1, 1, 1, 1>>},
          agree \in BOOLEAN :
           Call(Node(op, IF op = "GlobalAveragePool" THEN NoAttributes
                         ELSE ConvAttributes(auto_pad, kernel_shape, <<1, 1>>, <<1, 1>>,
                                             pads # <<>>, pads)),
                <<ConvShape(channels[1], "F32")>>,
                <<ConvShape(channels[2], OtherType(agree))>>, 13)
    \* Outputs of 2^28 and of 2^43 elements, and a node without kernel_shape.
    \/ \E op \in {"Conv", "AveragePool"},
          kernel_shape \in {<<>>, <<1, 1>>, <<3, 3>>, <<2, 2>>},
          out \in {<<Nat64(1), Nat64(4), Nat64(65536), Nat64(1024)>>,
                   <<Nat64(1), Nat64(4), Big64(512, 0), Nat64(1)>>,
                   <<Nat64(1), Nat64(4), Big64(512, 5), Nat64(1)>>} :
           Call(Node(op, IF kernel_shape = <<>> THEN NoAttributes
                         ELSE [kernel_shape |-> kernel_shape]),
                <<ConvShape(16, "F32")>>, <<Shape(out, "F32")>>, 13)

GemmAttributes ==
    {NoAttributes, [transA |-> 1], [transB |-> 1], [broadcast |-> 1],
     [transA |-> 0, transB |-> 0, broadcast |-> 0]}

\* Gemm and MatMul.
InitGemm ==
    \* [m, 4] x [4, n] -> [m, n]
    \/ \E op \in {"Gemm", "MatMul"}, attribute \in GemmAttributes,
          mn \in
              ({<<Nat64(m), Nat64(n)>> : m \in {0, 1, 2, 4, 16}, n \in {1, 3, 16, 65535, 65536}}
               \cup {<<One, Big64(1, 5)>>, <<One, Big64(1, 0)>>,
               <<Nat64(65536), Nat64(65536)>>, <<Big64(1, 0), Nat64(16)>>,
               <<Big64(1, 0), Nat64(48)>>}),
          agree \in BOOLEAN :
           Call(Node(op, attribute),
                <<Shape(<<mn[1], Nat64(4)>>, "F32"), Shape(<<Nat64(4), mn[2]>>, "F32")>>,
                <<Shape(mn, OtherType(agree))>>, 13)
    \* Gemm and MatMul with every attribute on shape lists of any kind, the empty
    \* list and shapes of rank 0 and 1 included.
    \/ \E op \in {"Gemm", "MatMul"},
          attribute \in GemmAttributes
                        \cup {[transA |-> -1], [transA |-> 0, transB |-> 2],
                              [transB |-> 0, broadcast |-> 1], [alpha |-> "0.5"]},
          shapes \in {<<>>, <<Shape(<<>>, "F32")>>, <<Shape(Dims(<<1>>), "F32")>>,
                      <<Shape(Dims(<<2, 4>>), "F32"), Shape(Dims(<<4>>), "F32")>>,
                      <<Shape(Dims(<<1, 4>>), "F32"), Shape(Dims(<<4, 3>>), "I64")>>} :
           Call(Node(op, attribute), shapes,
                IF shapes = <<>> THEN <<>> ELSE <<shapes[1]>>, 13)

InitBatchNorm ==
    \E dims \in
           ({<<>>, Dims(<<4>>), Dims(<<2, 3>>), Dims(<<3, 2, 2>>), Dims(<<2, 3, 2, 2>>),
            Dims(<<2, 3, 3, 3>>), Dims(<<1, 1, 1, 1, 1>>), Dims(<<0, 3, 2, 2>>),
            Dims(<<2, 0, 2, 2>>), Dims(<<0, 2, 2>>), Dims(<<2, 3, 0, 2>>),
            Dims(<<70000, 3, 2, 2>>), Dims(<<2, 65536, 2, 2>>), Dims(<<2, 3, 1024, 1024>>),
            <<Nat64(2), Big64(1, 1), Nat64(2), Nat64(2)>>,
            <<Big64(1, 0), Nat64(3), Nat64(2), Nat64(2)>>,
            <<Nat64(2), Nat64(3), Big64(1, 0), Nat64(8)>>}),
       attribute \in {NoAttributes, [spatial |-> 0], [spatial |-> 1], [spatial |-> -1]},
       opset \in {0, 7, 8, 9, 13}, agree \in BOOLEAN :
        Call(Node("BatchNormalization", attribute),
             <<Shape(dims, "F32")>>, <<Shape(dims, OtherType(agree))>>, opset)

\* Resize of a [1, 1, 2, 2] input to [1, 1, 4, 4]: each attribute absent
\* ("" below) or set, the scales given as scales, as sizes, as six sizes for
\* four dims, or not at all.
InitResize ==
    \E ctm \in {"", "asymmetric", "tf_crop_and_resize", "nearest"},
       has_roi \in BOOLEAN,
       mode \in {"", "nearest", "cubic", "linear", "floor"},
       nearest_mode \in {"", "floor", "ceil", "round_prefer_floor", "nearest"},
       scaling \in {NoAttributes, [scales |-> <<"1.00", "1.00", "2.00", "2.00">>],
                    [sizes |-> <<1, 1, 4, 4>>], [sizes |-> <<1, 1, 4, 4, 1, 1>>]},
       agree \in BOOLEAN :
        /\ has_roi => ctm = "tf_crop_and_resize"
        /\ Call(Node("Resize",
                     scaling
                     @@ (IF ctm = "" THEN NoAttributes
                         ELSE [coordinate_transformation_mode |-> ctm])
                     @@ (IF has_roi THEN [roi |-> <<0, 0, 1, 1>>] ELSE NoAttributes)
                     @@ (IF mode = "" THEN NoAttributes ELSE [mode |-> mode])
                     @@ (IF nearest_mode = "" THEN NoAttributes
                         ELSE [nearest_mode |-> nearest_mode])),
                <<Shape(Dims(<<1, 1, 2, 2>>), "F32")>>,
                <<Shape(Dims(<<1, 1, 4, 4>>), OtherType(agree))>>, 13)

\* Split of inputs of rank 1 to 3 into 0 to 3 outputs, the axis absent or in
\* -2..2, with and without a split attribute.
InitSplit ==
    \E dims \in {Dims(<<6>>), Dims(<<2, 3>>), Dims(<<1, 1, 2>>), Dims(<<1, 2>>),
                 Dims(<<7, 2>>), Dims(<<0, 2>>), Dims(<<1, 1>>)},
       has_axis \in BOOLEAN, axis \in -2..2, outputs \in 0..3,
       split \in {<<>>, <<2, 4>>}, agree \in BOOLEAN :
        /\ has_axis \/ axis = 0
        /\ Call(Node("Split",
                     (IF has_axis THEN [axis |-> axis] ELSE NoAttributes)
                     @@ (IF split = <<>> THEN NoAttributes ELSE [split |-> split])),
                <<Shape(dims, "F32")>>,
                [k \in 1..outputs |-> Shape(Dims(<<2>>), OtherType(agree))], 13)

\* Transpose of inputs of rank 1 to 3, of an input of 2^32 and of one of
\* 2^63 elements, with no perm, a permutation, and perms that name a dim the
\* output does not have.
InitTranspose ==
    \E io \in {<<Dims(<<1>>), Dims(<<1>>)>>, <<Dims(<<2, 3>>), Dims(<<3, 2>>)>>,
               <<Dims(<<2, 3, 4>>), Dims(<<4, 3, 2>>)>>,
               <<Dims(<<65536, 65536>>), Dims(<<65536, 65536>>)>>,
               <<<<Big64(1, 0), Big64(0, 2147483647)>>,
                 <<Big64(0, 2147483647), Big64(1, 0)>>>>,
               <<<<Big64(1, 0), Big64(0, 1073741824), Nat64(2)>>,
                 <<Nat64(2), Big64(0, 1073741824), Big64(1, 0)>>>>},
       has_perm \in BOOLEAN,
       perm \in {<<>>, <<0>>, <<1, 0>>, <<0, 1>>, <<2, 1, 0>>, <<1, 2, 0>>, <<0, 3>>,
                 <<-1, 0>>},
       agree \in BOOLEAN :
        /\ has_perm \/ perm = <<>>
        /\ Call(Node("Transpose", IF has_perm THEN [perm |-> perm] ELSE NoAttributes),
                <<Shape(io[1], "F32")>>, <<Shape(io[2], OtherType(agree))>>, 13)

\* OneHot with one to three inputs (indices, depth, values): the axis absent
\* or in -1..1, depth inputs of 0, 1 and 2 elements, values inputs of 1, 2
\* and 3 elements, and index counts up to beyond what one dispatch covers.
InitOneHot ==
    \E has_axis \in BOOLEAN, axis \in -1..1, inputs \in 1..3,
       indices \in {Dims(<<0>>), Dims(<<3>>), Dims(<<2, 2>>), Dims(<<300000>>),
                    Dims(<<65535 * 256 + 1>>)},
       depth \in {<<>>, Dims(<<1>>), Dims(<<2>>), Dims(<<0>>)},
       values \in {Dims(<<2>>), Dims(<<1>>), Dims(<<3>>), Dims(<<1, 2>>)} :
        /\ has_axis \/ axis = -1
        /\ Call(Node("OneHot", IF has_axis THEN [axis |-> axis] ELSE NoAttributes),
                SubSeq(<<Shape(indices, "I64"), Shape(depth, "I64"),
                         Shape(values, "F32")>>, 1, inputs),
                <<Shape(indices \o <<Nat64(4)>>, "F32")>>, 13)

\* Every reduction on an input of rank 0 to 3: the axes absent, empty,
\* negative, repeated in effect or outside the rank; outputs absent, of a few
\* elements or beyond what one dispatch covers.
InitReduce ==
    \E op \in ReduceOps, has_axes \in BOOLEAN,
       axes \in {<<>>, <<-2>>, <<1>>, <<0, 2>>, <<-1, -3>>, <<5>>, <<-5>>},
       dims \in {<<>>, Dims(<<4>>), Dims(<<3, 2, 2>>), Dims(<<2, 0, 3>>),
                 <<Big64(1, 0), Nat64(2), Nat64(3)>>},
       out \in {<<>>, <<Dims(<<3, 1, 2>>)>>, <<Dims(<<1>>)>>,
                <<Dims(<<65535 * 256 + 1>>)>>},
       agree \in BOOLEAN :
        /\ has_axes \/ axes = <<>>
        /\ Call(Node(op, IF has_axes THEN [axes |-> axes] ELSE NoAttributes),
                <<Shape(dims, "F32")>>,
                [i \in 1..Len(out) |-> Shape(out[i], OtherType(agree))], 13)

\* Concat, the arm that passes both whole lists to agreed_type before it
\* reads any shape: up to three inputs and up to two outputs, each of any of
\* three types.
InitAgreedType ==
    \E inputs \in UNION {[1..k -> {"F32", "I64", "I32"}] : k \in 0..3},
       outputs \in UNION {[1..k -> {"F32", "I64", "I32"}] : k \in 0..2} :
        Call(Node("Concat", [axis |-> 0]),
             [i \in 1..Len(inputs) |-> Shape(Dims(<<2>>), inputs[i])],
             [i \in 1..Len(outputs) |-> Shape(Dims(<<2>>), outputs[i])], 13)

Init ==
    \/ InitUnimplemented
    \/ InitElementwise
    \/ InitSoftmax
    \/ InitConcat
    \/ InitConv
    \/ InitGemm
    \/ InitBatchNorm
    \/ InitResize
    \/ InitSplit
    \/ InitTranspose
    \/ InitOneHot
    \/ InitReduce
    \/ InitAgreedType

Spec == Init /\ [][Next]_vars

\* workgroup_size on its own: the device limits with lengths around each
\* case of the solver, and every length for small limits.
InitWorkgroupSize ==
    /\ \/ /\ max_threads = MAX_COMPUTE_WORKGROUPS_PER_DIMENSION
          /\ max_workgroup_size \in {MAX_WORKGROUP_SIZE_X, MAX_WORKGROUP_SIZE_Y}
          /\ x \in
                 ({Nat64(n) : n \in {0, 1, 256, 65534, 65535, 65536, 65537, 131070, 131071,
                  65535 * 255, 65535 * 255 + 1, 65535 * 256 - 1, 65535 * 256,
                  65535 * 256 + 1, 65536 * 256, 2147483647}}
                  \cup {Big64(1, 0), Big64(1, 1), Big64(65535, 0), Big64(65535, 65535),
                  Big64(65536, 0), Big64(3 * 65535, 3 * 65535), Big64(256 * 65535, 256 * 65535),
                  Big64(257 * 65535, 257 * 65535), Big64(2147483647, 2147483647)})
       \/ /\ max_threads \in 1..MaxSmallThreads
          /\ max_workgroup_size \in 1..MaxSmallGroup
          /\ x \in {Nat64(n) : n \in 0..(MaxSmallThreads * MaxSmallGroup + 2)}
                   \cup {Big64(1, 0), Big64(1, 1), Big64(2, 2), Big64(3, 3)}
    /\ node = Node("", NoAttributes)
    /\ input_shapes = <<>>
    /\ output_shapes = <<>>
    /\ opset_version = 0
    /\ pc = "workgroup_size"
    /\ context = NoAttributes
    /\ node_template = NoTemplate
    /\ result = NoResult
    /\ registry = {}
    /\ once = "incomplete"
    /\ array = <<>>
    /\ data = <<>>
    /\ chunk_size = 0
    /\ padding_size = 0
    /\ calls = <<>>

SpecWorkgroupSize == InitWorkgroupSize /\ [][CallWorkgroupSize]_vars

----------------------------------------------------------------------------
(* Calls of compile from several threads.  compile borrows the node and    *)
(* the shapes (`&`), keeps its lengths, chunks, Context and NodeTemplate   *)
(* in locals, and shares only the static TEMPLATES, which the first        *)
(* rendering loads.  Each call takes the steps of Select, CheckLimits and  *)
(* Render on its own record; the steps of different calls interleave.      *)

\* call i runs lines 228-962.
SelectIn(i) ==
    /\ calls[i].pc = "compile"
    /\ calls' =
          [calls EXCEPT ![i] =
              IF select_template(calls[i].node, calls[i].input_shapes,
                                 calls[i].output_shapes, calls[i].opset_version).ok
              THEN [calls[i] EXCEPT
                      !.node_template =
                          select_template(calls[i].node, calls[i].input_shapes,
                                          calls[i].output_shapes,
                                          calls[i].opset_version).value.node_template,
                      !.context =
                          select_template(calls[i].node, calls[i].input_shapes,
                                          calls[i].output_shapes,
                                          calls[i].opset_version).value.bind
                          @@ base_context(calls[i].node, calls[i].input_shapes,
                                          calls[i].output_shapes,
                                          calls[i].opset_version),
                      !.pc = "limits"]
              ELSE [calls[i] EXCEPT
                      !.result =
                          select_template(calls[i].node, calls[i].input_shapes,
                                          calls[i].output_shapes,
                                          calls[i].opset_version),
                      !.context =
                          base_context(calls[i].node, calls[i].input_shapes,
                                       calls[i].output_shapes, calls[i].opset_version),
                      !.pc = "done"]]
    /\ UNCHANGED <<node, input_shapes, output_shapes, opset_version, pc, context,
                   node_template, x, max_threads, max_workgroup_size, result,
                   registry, once,
                   array, data, chunk_size, padding_size>>

\* call i runs lines 964-985.
CheckLimitsIn(i) ==
    /\ calls[i].pc = "limits"
    /\ calls' =
          [calls EXCEPT ![i] =
              IF check_limits(calls[i].node_template.threads).ok
              THEN [calls[i] EXCEPT !.pc = "render"]
              ELSE [calls[i] EXCEPT
                      !.result = check_limits(calls[i].node_template.threads),
                      !.pc = "done"]]
    /\ UNCHANGED <<node, input_shapes, output_shapes, opset_version, pc, context,
                   node_template, x, max_threads, max_workgroup_size, result,
                   registry, once,
                   array, data, chunk_size, padding_size>>

\* RenderIn rendering the NodeTemplate call 1 chose, once there is one, as
\* if node_template were a static shared by the calls.
RenderInSharingTemplate(i) ==
    /\ calls[i].pc = "render"
    /\ calls' =
          [calls EXCEPT ![i] =
              [calls[i] EXCEPT
                  !.context = scalar_bindings(calls[i].node_template.scalar_type)
                              @@ calls[i].context,
                  !.result =
                      compiled(render((IF calls[1].node_template # NoTemplate
                                       THEN calls[1] ELSE calls[i]).node_template.template,
                                      scalar_bindings(calls[i].node_template.scalar_type)
                                      @@ calls[i].context),
                               calls[i].node_template.threads),
                  !.pc = "done"]]
    /\ registry' = TEMPLATES
    /\ once' = "complete"
    /\ UNCHANGED <<node, input_shapes, output_shapes, opset_version, pc, context,
                   node_template, x, max_threads, max_workgroup_size, result,
                   array, data, chunk_size, padding_size>>

\* call i runs lines 987-1008; TEMPLATES is loaded by its first use.
RenderIn(i) ==
    /\ calls[i].pc = "render"
    /\ calls' =
          [calls EXCEPT ![i] =
              [calls[i] EXCEPT
                  !.context = scalar_bindings(calls[i].node_template.scalar_type)
                              @@ calls[i].context,
                  !.result =
                      compiled(render(calls[i].node_template.template,
                                      scalar_bindings(calls[i].node_template.scalar_type)
                                      @@ calls[i].context),
                               calls[i].node_template.threads),
                  !.pc = "done"]]
    /\ registry' = TEMPLATES
    /\ once' = "complete"
    /\ UNCHANGED <<node, input_shapes, output_shapes, opset_version, pc, context,
                   node_template, x, max_threads, max_workgroup_size, result,
                   array, data, chunk_size, padding_size>>

\* MaxCalls calls, each of one of four nodes: an Abs and a Softmax that
\* compile, a Concat over the dispatch limit and an op without an arm; the
\* registry loaded by an earlier call or not yet.
InitCalls ==
    /\ \E choice \in [1..MaxCalls -> 1..4] :
          calls =
            [i \in 1..MaxCalls |->
                [node |-> <<Node("Abs", NoAttributes), Node("Softmax", NoAttributes),
                            Node("Concat", [axis |-> 0]),
                            Node("LSTM", NoAttributes)>>[choice[i]],
                 input_shapes |->
                     <<<<Shape(Dims(<<2, 3>>), "F32")>>,
                       <<Shape(Dims(<<1, 4>>), "F32")>>,
                       <<Shape(Dims(<<65535, 128>>), "F32"),
                         Shape(Dims(<<65535, 128>>), "F32"),
                         Shape(Dims(<<1>>), "F32")>>,
                       <<>>>>[choice[i]],
                 output_shapes |->
                     <<<<Shape(Dims(<<2, 3>>), "F32")>>,
                       <<Shape(Dims(<<1, 4>>), "F32")>>,
                       <<Shape(Dims(<<65535 * 256 + 1>>), "F32")>>,
                       <<>>>>[choice[i]],
                 opset_version |-> <<13, 12, 13, 13>>[choice[i]],
                 pc |-> "compile",
                 context |-> NoAttributes,
                 node_template |-> NoTemplate,
                 result |-> NoResult]]
    /\ registry \in {{}, TEMPLATES}
    /\ once = IF registry = {} THEN "incomplete" ELSE "complete"
    /\ array = <<>>
    /\ data = <<>>
    /\ chunk_size = 0
    /\ padding_size = 0
    /\ node = Node("", NoAttributes)
    /\ input_shapes = <<>>
    /\ output_shapes = <<>>
    /\ opset_version = 0
    /\ pc = "calls"
    /\ context = NoAttributes
    /\ node_template = NoTemplate
    /\ x = Zero64
    /\ max_threads = 0
    /\ max_workgroup_size = 0
    /\ result = NoResult

SpecCalls ==
    InitCalls
    /\ [][\E i \in 1..MaxCalls : SelectIn(i) \/ CheckLimitsIn(i) \/ RenderIn(i)]_vars

-----------------------------------------------------------------------------
(* The first use of TEMPLATES.  lazy_static! keeps the static behind a     *)
(* one-shot guard: the call that finds the guard incomplete runs the       *)
(* initializer (lines 19-128) on a Tera of its own and the guard publishes *)
(* the finished value; a call that finds the guard running waits; a call   *)
(* that finds it complete reads the published value.  RenderIn above takes *)
(* these steps as one.                                                     *)

\* The names in the order the initializer registers them.
raw_templates ==
    <<"endomorphism/activation.wgsl", "endomorphism/arithmetic.wgsl",
      "endomorphism/batchnormalization.wgsl", "endomorphism/softmax.wgsl",
      "endomorphism/map.wgsl", "endomorphism/cast.wgsl", "matrix/concat.wgsl",
      "matrix/gemm_1.wgsl", "matrix/gemm.wgsl", "matrix/resize.wgsl",
      "matrix/split.wgsl", "matrix/transpose.wgsl", "pool/aggregate.wgsl",
      "pool/conv_kernel_1.wgsl", "pool/conv_kernel_3.wgsl", "pool/conv.wgsl",
      "pool/reduce.wgsl", "structs.wgsl", "snippets/activation_vec.wgsl",
      "snippets/activation_scalar.wgsl", "endomorphism/gather.wgsl",
      "endomorphism/onehot.wgsl">>

\* CallOnce without the one-shot guard: a call that finds the static not yet
\* published starts the initializer, whether or not another call runs it.
CallOnceUnguarded(i) ==
    /\ calls[i].pc = "render"
    /\ once # "complete"
    /\ once' = "running"
    /\ calls' = [calls EXCEPT ![i] = [calls[i] EXCEPT !.pc = "initialize", !.tera = <<>>]]
    /\ UNCHANGED <<node, input_shapes, output_shapes, opset_version, pc, context,
                   node_template, x, max_threads, max_workgroup_size, result,
                   registry,
                   array, data, chunk_size, padding_size>>

\* call i dereferences TEMPLATES at line 1001, finds the guard incomplete and
\* starts the initializer: let mut tera = Tera::default().
CallOnce(i) ==
    /\ calls[i].pc = "render"
    /\ once = "incomplete"
    /\ array = <<>>
    /\ data = <<>>
    /\ chunk_size = 0
    /\ padding_size = 0
    /\ once' = "running"
    /\ calls' = [calls EXCEPT ![i] = [calls[i] EXCEPT !.pc = "initialize", !.tera = <<>>]]
    /\ UNCHANGED <<node, input_shapes, output_shapes, opset_version, pc, context,
                   node_template, x, max_threads, max_workgroup_size, result,
                   registry,
                   array, data, chunk_size, padding_size>>

\* The next tera.add_raw_template(..).unwrap() of the initializer.
AddRawTemplate(i) ==
    /\ calls[i].pc = "initialize"
    /\ Len(calls[i].tera) < Len(raw_templates)
    /\ calls' =
          [calls EXCEPT ![i] =
              [calls[i] EXCEPT
                  !.tera = Append(calls[i].tera,
                                  raw_templates[Len(calls[i].tera) + 1])]]
    /\ UNCHANGED <<node, input_shapes, output_shapes, opset_version, pc, context,
                   node_template, x, max_threads, max_workgroup_size, result,
                   registry, once,
                   array, data, chunk_size, padding_size>>

\* The initializer returns tera (line 128); the guard stores it in the static
\* and completes.
Publish(i) ==
    /\ calls[i].pc = "initialize"
    /\ Len(calls[i].tera) = Len(raw_templates)
    /\ registry' = {calls[i].tera[k] : k \in DOMAIN calls[i].tera}
    /\ once' = "complete"
    /\ calls' = [calls EXCEPT ![i] = [calls[i] EXCEPT !.pc = "render"]]
    /\ UNCHANGED <<node, input_shapes, output_shapes, opset_version, pc, context,
                   node_template, x, max_threads, max_workgroup_size, result,
                   array, data, chunk_size, padding_size>>

\* call i finds the guard complete and renders against the published value
\* (lines 1000-1008); templates is the registry the call read.
RenderLoaded(i) ==
    /\ calls[i].pc = "render"
    /\ once = "complete"
    /\ calls' =
          [calls EXCEPT ![i] =
              [calls[i] EXCEPT
                  !.templates = registry,
                  !.context = scalar_bindings(calls[i].node_template.scalar_type)
                              @@ calls[i].context,
                  !.result =
                      IF calls[i].node_template.template \in registry
                      THEN compiled(render(calls[i].node_template.template,
                                           scalar_bindings(
                                               calls[i].node_template.scalar_type)
                                           @@ calls[i].context),
                                    calls[i].node_template.threads)
                      ELSE Panic("failed to render shader"),
                  !.pc = "done"]]
    /\ UNCHANGED <<node, input_shapes, output_shapes, opset_version, pc, context,
                   node_template, x, max_threads, max_workgroup_size, result,
                   registry, once,
                   array, data, chunk_size, padding_size>>

\* MaxCalls calls of compile, each of an Abs or a Relu on [2, 3], that have
\* passed the limit checks; TEMPLATES loaded by an earlier call or not yet.
InitTemplates ==
    /\ \E op \in [1..MaxCalls -> {"Abs", "Relu"}] :
          calls =
            [i \in 1..MaxCalls |->
                [node |-> Node(op[i], NoAttributes),
                 input_shapes |-> <<Shape(Dims(<<2, 3>>), "F32")>>,
                 output_shapes |-> <<Shape(Dims(<<2, 3>>), "F32")>>,
                 opset_version |-> 13,
                 pc |-> "render",
                 context |->
                     select_template(Node(op[i], NoAttributes),
                                     <<Shape(Dims(<<2, 3>>), "F32")>>,
                                     <<Shape(Dims(<<2, 3>>), "F32")>>, 13).value.bind
                     @@ base_context(Node(op[i], NoAttributes),
                                     <<Shape(Dims(<<2, 3>>), "F32")>>,
                                     <<Shape(Dims(<<2, 3>>), "F32")>>, 13),
                 node_template |->
                     select_template(Node(op[i], NoAttributes),
                                     <<Shape(Dims(<<2, 3>>), "F32")>>,
                                     <<Shape(Dims(<<2, 3>>), "F32")>>,
                                     13).value.node_template,
                 result |-> NoResult,
                 tera |-> <<>>,
                 templates |-> {}]]
    /\ once \in {"incomplete", "complete"}
    /\ registry = IF once = "complete" THEN TEMPLATES ELSE {}
    /\ array = <<>>
    /\ data = <<>>
    /\ chunk_size = 0
    /\ padding_size = 0
    /\ node = Node("", NoAttributes)
    /\ input_shapes = <<>>
    /\ output_shapes = <<>>
    /\ opset_version = 0
    /\ pc = "calls"
    /\ context = NoAttributes
    /\ node_template = NoTemplate
    /\ x = Zero64
    /\ max_threads = 0
    /\ max_workgroup_size = 0
    /\ result = NoResult

SpecTemplates ==
    InitTemplates
    /\ [][\E i \in 1..MaxCalls :
             CallOnce(i) \/ AddRawTemplate(i) \/ Publish(i) \/ RenderLoaded(i)]_vars

-----------------------------------------------------------------------------
(* resource.rs: the buffer helpers resize and padding, each called on its  *)
(* own.  Elements and bytes are small integers, T::zeroed() is 0.          *)

MaxLen == 5          \* longest array and data
MaxChunk == 3        \* largest chunk_size
MaxPadding == 2      \* largest padding_size

\* resize rounding every length up to a multiple of 4.
resize_to_multiple(array_) ==
    IF Len(array_) % 4 # 0
    THEN [k \in 1..(Len(array_) + 4 - (Len(array_) % 4)) |->
             IF k <= Len(array_) THEN array_[k] ELSE 0]
    ELSE array_

\* resize (lines 50-57): Vec::resize(new_len, T::zeroed()) keeps the elements
\* and appends zeroed ones up to new_len.
resize(array_) ==
    IF Len(array_) < 4 /\ Len(array_) # 0
    THEN [k \in 1..(Len(array_) + 4 - (Len(array_) % 4)) |->
             IF k <= Len(array_) THEN array_[k] ELSE 0]
    ELSE array_

\* The loop of padding from chunk i on (lines 62-65), with n = data.len() /
\* chunk_size.
RECURSIVE padding_from(_, _, _, _)
padding_from(data_, chunk_size_, padding_size_, i) ==
    IF i >= Len(data_) \div chunk_size_ THEN <<>>
    ELSE SubSeq(data_, chunk_size_ * i + 1, chunk_size_ * (i + 1))
         \o [k \in 1..padding_size_ |-> 0]
         \o padding_from(data_, chunk_size_, padding_size_, i + 1)

\* padding that copies the trailing partial chunk as well.
padding_with_tail(data_, chunk_size_, padding_size_) ==
    IF chunk_size_ = 0 THEN Panic("attempt to divide by zero")
    ELSE Ok(padding_from(data_, chunk_size_, padding_size_, 0)
            \o SubSeq(data_, chunk_size_ * (Len(data_) \div chunk_size_) + 1,
                      Len(data_)))

\* padding (lines 60-68); Ok(v) stands for the Vec returned, and the division
\* by a chunk_size of 0 panics.
padding(data_, chunk_size_, padding_size_) ==
    IF chunk_size_ = 0 THEN Panic("attempt to divide by zero")
    ELSE Ok(padding_from(data_, chunk_size_, padding_size_, 0))

CallResize ==
    /\ pc = "resize"
    /\ result' = Ok(resize(array))
    /\ pc' = "resized"
    /\ UNCHANGED <<node, input_shapes, output_shapes, opset_version, context,
                   node_template, x, max_threads, max_workgroup_size, registry, once,
                   calls, array, data, chunk_size, padding_size>>

CallPadding ==
    /\ pc = "padding"
    /\ result' = padding(data, chunk_size, padding_size)
    /\ pc' = "padded"
    /\ UNCHANGED <<node, input_shapes, output_shapes, opset_version, context,
                   node_template, x, max_threads, max_workgroup_size, registry, once,
                   calls, array, data, chunk_size, padding_size>>

\* A call of resize on an array of up to MaxLen elements, or of padding on up
\* to MaxLen bytes with chunk_size up to MaxChunk and padding_size up to
\* MaxPadding.
InitResource ==
    /\ \/ /\ pc = "resize"
          /\ array \in UNION {[1..k -> {0, 1, 2}] : k \in 0..MaxLen}
          /\ data = <<>>
          /\ chunk_size = 0
          /\ padding_size = 0
       \/ /\ pc = "padding"
          /\ array = <<>>
          /\ data \in UNION {[1..k -> {0, 1, 255}] : k \in 0..MaxLen}
          /\ chunk_size \in 0..MaxChunk
          /\ padding_size \in 0..MaxPadding
    /\ node = Node("", NoAttributes)
    /\ input_shapes = <<>>
    /\ output_shapes = <<>>
    /\ opset_version = 0
    /\ context = NoAttributes
    /\ node_template = NoTemplate
    /\ x = Zero64
    /\ max_threads = 0
    /\ max_workgroup_size = 0
    /\ result = NoResult
    /\ registry = {}
    /\ once = "incomplete"
    /\ calls = <<>>

SpecResource == InitResource /\ [][CallResize \/ CallPadding]_vars

----------------------------------------------------------------------------
(* The claims of the specification, stated over the model.                 *)

\* C1: whenever compile returns Ok, each of threads.x, threads.y and
\* threads.z of the returned CompiledNode is at least 1 and at most 65535.
C1_ThreadsBetweenOneAndLimit ==
    (pc = "done" /\ result.ok) =>
        \A i \in 1..3 :
            /\ Le64(One, result.value.threads[i])
            /\ Le64(result.value.threads[i], Nat64(65535))

\* C2: for Concat and BatchNormalization, which compute the dispatch extent
\* themselves, an extent above 65535 in some dimension (ceil(o_lens[0]/256)
\* for Concat; ceil(w*h/elements), C or N for BatchNormalization), taken in
\* 64 bits, makes compile return ComputeLimitExceeded.
C2_DirectExtentOverLimitRejected ==
    (/\ pc = "done"
     /\ node_template # NoTemplate
     /\ \/ /\ node.op_type = "Concat"
           /\ Lt64(Nat64(65535), direct_extent(output_shapes, 256))
        \/ /\ node.op_type = "BatchNormalization"
           /\ \E i \in 1..3 :
                  Lt64(Nat64(65535), batchnorm_extent(input_shapes[1])[i]))
    => (~result.ok /\ result.error = "ComputeLimitExceeded")

\* C3: for every x <= max_threads * max_workgroup_size, workgroup_size
\* succeeds with (threads, group) such that threads * group >= x,
\* threads <= max_threads and group <= max_workgroup_size; and when
\* x <= max_threads the pair is exactly (x, 1).
C3_WorkgroupSizeCoversLength ==
    (/\ pc = "returned"
     /\ Le64(x, Mul64(Nat64(max_threads), Nat64(max_workgroup_size))))
    => /\ result.ok
       /\ Le64(x, Mul64(result.value[1], result.value[2]))
       /\ Le64(result.value[1], Nat64(max_threads))
       /\ Le64(result.value[2], Nat64(max_workgroup_size))
       /\ (Le64(x, Nat64(max_threads)) => result.value = <<x, Nat64(1)>>)

\* C3, its case reached: the largest length the device limits take,
\* 65535 * 256, is split into 65535 workgroups of 256.
C3_Witness ==
    /\ pc = "returned"
    /\ max_threads = 65535
    /\ max_workgroup_size = 256
    /\ x = Nat64(65535 * 256)
    /\ result = Ok(<<Nat64(65535), Nat64(256)>>)

\* C4: workgroup_size returns ComputeLimitExceeded for every 64-bit x above
\* max_threads * max_workgroup_size, also when a quotient needs more than
\* 32 bits.
C4_OverCapacityRejected ==
    (/\ pc = "returned"
     /\ Lt64(Mul64(Nat64(max_threads), Nat64(max_workgroup_size)), x))
    => (~result.ok /\ result.error = "ComputeLimitExceeded")

C7_OutOfRangeAxisRejected ==
    (/\ pc = "done"
     /\ node.op_type = "Softmax"
     /\ opset_version \in 1..15
     /\ "axis" \in DOMAIN node.attribute
     /\ \/ node.attribute.axis < 0 /\ opset_version < 13
        \/ node.attribute.axis >= rank(input_shapes[1])
        \/ node.attribute.axis + rank(input_shapes[1]) < 0)
    => (~result.ok /\ result.error = "InvalidAttributeValue")

\* C8: Softmax compiles to Ok only when the normalized axis is 1 and input 0
\* has shape [1, n].
C8_SoftmaxOnlyOverOneByN ==
    (pc = "done" /\ node.op_type = "Softmax" /\ result.ok) =>
        /\ rank(input_shapes[1]) = 2
        /\ dim(input_shapes[1], 0) = Nat64(1)

\* C9: a convolution selects pool/conv_kernel_1.wgsl iff strides, kernel and
\* dilations are [1,1], the resolved pads are [0,0,0,0], the input channels
\* divide by 16 and the output channels by 4; otherwise
\* pool/conv_kernel_3.wgsl iff strides = [1,1], kernel = [3,3], dilations =
\* [1,1] and the output channels divide by 4; otherwise pool/conv.wgsl; and
\* threads.x is ceil(o_lens[0]/1024) for the two specializations and
\* ceil(o_lens[0]/256) for pool/conv.wgsl.
C9_ConvTemplateAndThreads ==
    (pc # "compile" /\ node.op_type \in ConvOps /\ node_template # NoTemplate) =>
        LET kernel_1 == /\ context.stride = <<1, 1>>
                        /\ context.kernel_shape = <<1, 1>>
                        /\ context.dilation = <<1, 1>>
                        /\ context.pad = <<0, 0, 0, 0>>
                        /\ context.i_shape[1][2][1] % 16 = 0
                        /\ context.o_shape[1][2][1] % 4 = 0
            kernel_3 == /\ context.stride = <<1, 1>>
                        /\ context.kernel_shape = <<3, 3>>
                        /\ context.dilation = <<1, 1>>
                        /\ context.o_shape[1][2][1] % 4 = 0
        IN  /\ node_template.template =
                   IF kernel_1 THEN "pool/conv_kernel_1.wgsl"
                   ELSE IF kernel_3 THEN "pool/conv_kernel_3.wgsl"
                   ELSE "pool/conv.wgsl"
            /\ node_template.threads[1] =
                   ceil(context.o_lens[1],
                        Nat64(IF kernel_1 \/ kernel_3 THEN 1024 ELSE 256))

\* C10: under auto_pad SAME_UPPER or SAME_LOWER the pads bound are, per
\* spatial dim d, half = slack_d / 2 and rest = slack_d % 2 of slack_d =
\* -stride_d + (kernel_d - 1) * dilation_d + 1 (the division rounds toward
\* zero, the remainder has the sign of slack_d), with the remainder added to
\* the end pads for SAME_UPPER and to the begin pads for SAME_LOWER, whatever
\* the pads attribute; kernel [3,3], strides [2,2], dilations [1,1] and
\* SAME_UPPER give exactly [0,0,1,1].
C10_SamePadsSplitTheSlack ==
    (/\ pc # "compile"
     /\ node_template # NoTemplate
     /\ node.op_type \in PoolOps \cup ConvOps
     /\ "auto_pad" \in DOMAIN node.attribute
     /\ node.attribute.auto_pad \in {"SAME_UPPER", "SAME_LOWER"})
    => LET slack_d(d) == -node.attribute.strides[d]
                         + (node.attribute.kernel_shape[d] - 1)
                           * node.attribute.dilations[d] + 1
           half(d) == IF slack_d(d) >= 0 THEN slack_d(d) \div 2
                      ELSE -((-slack_d(d)) \div 2)
           rest(d) == slack_d(d) - 2 * half(d)
       IN  /\ context.pad =
                  IF node.attribute.auto_pad = "SAME_UPPER"
                  THEN <<half(1), half(2), half(1) + rest(1), half(2) + rest(2)>>
                  ELSE <<half(1) + rest(1), half(2) + rest(2), half(1), half(2)>>
           /\ \A d \in 1..2 : context.pad[d] + context.pad[d + 2] = slack_d(d)
           /\ (/\ node.attribute.auto_pad = "SAME_UPPER"
               /\ node.attribute.kernel_shape = <<3, 3>>
               /\ node.attribute.strides = <<2, 2>>
               /\ node.attribute.dilations = <<1, 1>>)
              => context.pad = <<0, 0, 1, 1>>

\* C10, its case reached: a Conv with kernel [3,3], strides [2,2], dilations
\* [1,1], SAME_UPPER and a pads attribute of its own compiles with pads
\* [0,0,1,1].
C10_Witness ==
    /\ pc = "done"
    /\ result.ok
    /\ node.op_type = "Conv"
    /\ node.attribute.auto_pad = "SAME_UPPER"
    /\ node.attribute.kernel_shape = <<3, 3>>
    /\ node.attribute.strides = <<2, 2>>
    /\ node.attribute.dilations = <<1, 1>>
    /\ "pads" \in DOMAIN node.attribute
    /\ node.attribute.pads # <<0, 0, 1, 1>>
    /\ context.pad = <<0, 0, 1, 1>>

\* C11: Gemm with transA, transB or broadcast different from 0 returns
\* UnimplementedVariant and no NodeTemplate is chosen, whatever the shapes
\* (empty shape lists included); with all three absent or 0 compile does not
\* return that error.
C11_GemmTransposeAndBroadcastRejected ==
    (pc = "done" /\ node.op_type = "Gemm") =>
        IF \E name \in {"transA", "transB", "broadcast"} :
               name \in DOMAIN node.attribute /\ node.attribute[name] # 0
        THEN /\ result = Err("UnimplementedVariant",
                             <<"Gemm", "transA/transB/broadcast">>)
             /\ node_template = NoTemplate
        ELSE result.ok \/ result.error # "UnimplementedVariant"

\* C11, its case reached: broadcast = 1 is rejected with no shape at all.
C11_Witness ==
    /\ pc = "done"
    /\ node.op_type = "Gemm"
    /\ "broadcast" \in DOMAIN node.attribute
    /\ node.attribute["broadcast"] = 1
    /\ input_shapes = <<>>
    /\ result = Err("UnimplementedVariant", <<"Gemm", "transA/transB/broadcast">>)

\* C12: Gemm and MatMul choose matrix/gemm_1.wgsl with threads
\* (o_shape[0].dim(1), 1, 1) exactly when i_shape[0].dim(0) = 1, and otherwise
\* matrix/gemm.wgsl with threads (i_shape[0].dim(0) * i_shape[1].dim(1) / 16,
\* 1, 1), the quotient rounded down.
C12_GemmTemplateAndThreads ==
    (node.op_type \in {"Gemm", "MatMul"} /\ node_template # NoTemplate) =>
        IF input_shapes[1].dims[1] = Nat64(1)
        THEN /\ node_template.template = "matrix/gemm_1.wgsl"
             /\ node_template.threads = <<output_shapes[1].dims[2], Nat64(1), Nat64(1)>>
        ELSE /\ node_template.template = "matrix/gemm.wgsl"
             /\ node_template.threads =
                    <<DivMod64(Mul64(input_shapes[1].dims[1], input_shapes[2].dims[2]),
                               Nat64(16)).quot,
                      Nat64(1), Nat64(1)>>

C14_SpatialRejectedFirst ==
    (/\ pc = "done"
     /\ node.op_type = "BatchNormalization"
     /\ "spatial" \in DOMAIN node.attribute) =>
        /\ node_template = NoTemplate
        /\ result = IF opset_version < 9
                    THEN Err("UnimplementedVariant", <<"BatchNormalization", "spatial">>)
                    ELSE Err("InvalidAttributeValue",
                             <<"spatial", node.attribute["spatial"], opset_version>>)

\* C14, its case reached: spatial = 0 at opset 9 on an input of rank 2.
C14_Witness ==
    /\ pc = "done"
    /\ node = Node("BatchNormalization", [spatial |-> 0])
    /\ opset_version = 9
    /\ input_shapes[1].dims = Dims(<<2, 3>>)
    /\ result = Err("InvalidAttributeValue", <<"spatial", 0, 9>>)

\* C15: Resize returns Ok only when mode is nearest (the default) and the
\* node has the attribute nearest_mode = floor.  When the attributes read
\* before the mode are in order (a roi with tf_crop_and_resize, no more sizes
\* than input dims), every other mode, cubic and linear among them, and every
\* other nearest_mode, the default round_prefer_floor of a node without the
\* attribute among them, return UnimplementedVariant, naming the mode or the
\* nearest_mode when the coordinate transformation mode is an implemented one.
C15_ResizeOnlyNearestFloor ==
    (pc = "done" /\ node.op_type = "Resize") =>
        /\ result.ok =>
              /\ ("mode" \in DOMAIN node.attribute) => (node.attribute["mode"] = "nearest")
              /\ "nearest_mode" \in DOMAIN node.attribute
              /\ node.attribute["nearest_mode"] = "floor"
        /\ (/\ \/ "coordinate_transformation_mode" \notin DOMAIN node.attribute
                \/ node.attribute["coordinate_transformation_mode"] # "tf_crop_and_resize"
                \/ "roi" \in DOMAIN node.attribute
             /\ \/ "sizes" \notin DOMAIN node.attribute
                \/ "scales" \in DOMAIN node.attribute
                \/ Len(node.attribute["sizes"]) <= Len(input_shapes[1].dims))
           => IF "mode" \in DOMAIN node.attribute /\ node.attribute["mode"] # "nearest"
              THEN /\ ~result.ok
                   /\ result.error = "UnimplementedVariant"
                   /\ \/ result.args = <<"Resize", "mode", node.attribute["mode"]>>
                      \/ result.args[2] = "coordinate_transformation_mode"
              ELSE IF "nearest_mode" \notin DOMAIN node.attribute
              THEN /\ ~result.ok
                   /\ result.error = "UnimplementedVariant"
                   /\ \/ result.args = <<"Resize", "nearest_mode", "round_prefer_floor">>
                      \/ result.args[2] = "coordinate_transformation_mode"
              ELSE IF node.attribute["nearest_mode"] # "floor"
              THEN /\ ~result.ok
                   /\ result.error = "UnimplementedVariant"
                   /\ \/ result.args = <<"Resize", "nearest_mode", node.attribute["nearest_mode"]>>
                      \/ result.args[2] = "coordinate_transformation_mode"
              ELSE TRUE

\* C15, its case reached: a Resize with no mode and no nearest_mode attribute
\* is refused for the default nearest_mode.
C15_Witness ==
    /\ pc = "done"
    /\ node.op_type = "Resize"
    /\ "mode" \notin DOMAIN node.attribute
    /\ "nearest_mode" \notin DOMAIN node.attribute
    /\ result = Err("UnimplementedVariant",
                    <<"Resize", "nearest_mode", "round_prefer_floor">>)

\* C16: Split binds as axis the attribute a itself when a >= 0 (0 when
\* absent) and a + element_count(input 0) when a < 0, and reads
\* dim(input 0, axis) with it: an axis outside 0..rank-1 after that panics
\* on the index.
C16_SplitAxisByElementCount ==
    (pc = "done" /\ node.op_type = "Split") =>
        IF "axis" \in DOMAIN node.attribute /\ node.attribute["axis"] < 0
        THEN /\ result.ok
                => context.axis = node.attribute["axis"]
                                  + ToInt(Product(input_shapes[1].dims))
             /\ (node.attribute["axis"] + ToInt(Product(input_shapes[1].dims))
                    \notin 0..(Len(input_shapes[1].dims) - 1))
                => result = Panic("index out of bounds")
        ELSE /\ result.ok
                => context.axis = IF "axis" \in DOMAIN node.attribute
                                  THEN node.attribute["axis"] ELSE 0
             /\ ("axis" \in DOMAIN node.attribute
                 /\ node.attribute["axis"] >= Len(input_shapes[1].dims))
                => result = Panic("index out of bounds")

\* C16, its case reached: axis -2 on a [1, 1, 2] input is bound as
\* -2 + 2 = 0, where the rank would give 1.
C16_Witness ==
    /\ pc = "done"
    /\ node.op_type = "Split"
    /\ "axis" \in DOMAIN node.attribute
    /\ node.attribute["axis"] = -2
    /\ input_shapes[1].dims = Dims(<<1, 1, 2>>)
    /\ result.ok
    /\ context.axis = 0

\* C17: Split without a split attribute binds split = [chunk, 2*chunk, ...,
\* n*chunk], n the number of outputs and chunk = dim(input 0, axis) / n
\* rounded down: n end offsets, one per output; a split attribute is bound
\* as it is.
C17_SplitDefaultOffsets ==
    (pc = "done" /\ node.op_type = "Split" /\ result.ok) =>
        IF "split" \in DOMAIN node.attribute
        THEN context.split = node.attribute["split"]
        ELSE /\ Len(context.split) = Len(output_shapes)
             /\ \A k \in 1..Len(output_shapes) :
                    context.split[k] =
                        Nat64(k * (ToInt(input_shapes[1].dims[context.axis + 1])
                                   \div Len(output_shapes)))

\* C17, its case reached: a [7, 2] input split in three along axis 0 has
\* chunk 2 and end offsets [2, 4, 6].
C17_Witness ==
    /\ pc = "done"
    /\ node = Node("Split", NoAttributes)
    /\ input_shapes[1].dims = Dims(<<7, 2>>)
    /\ Len(output_shapes) = 3
    /\ result.ok
    /\ context.split = <<Nat64(2), Nat64(4), Nat64(6)>>

\* C18: Transpose (given an input and an output of one type) binds
\* permuted_chunks to the chunk vector of the shape [o_shape[0][perm[0]],
\* o_shape[0][perm[1]], ...], of length len(perm) and last element 1, for a
\* perm attribute that names dims of the output; and for a node with no perm
\* attribute, whatever the input, the default perm is empty, permuted_chunks
\* is [1] and compile goes on to the limit checks and returns Ok when they
\* pass, not an error of the missing perm.
C18_TransposePermutedChunks ==
    (/\ pc = "done"
     /\ node.op_type = "Transpose"
     /\ Len(input_shapes) = 1
     /\ Len(output_shapes) = 1
     /\ input_shapes[1].data_type = output_shapes[1].data_type) =>
        IF "perm" \notin DOMAIN node.attribute
        THEN /\ node_template # NoTemplate
             /\ context.permuted_chunks = <<Nat64(1)>>
             /\ result.ok \/ result.error = "ComputeLimitExceeded"
        ELSE (/\ node.attribute["perm"] # <<>>
              /\ \A k \in 1..Len(node.attribute["perm"]) :
                     node.attribute["perm"][k] \in 0..(Len(output_shapes[1].dims) - 1))
             => /\ node_template # NoTemplate
                /\ Len(context.permuted_chunks) = Len(node.attribute["perm"])
                /\ context.permuted_chunks[Len(node.attribute["perm"])] = Nat64(1)
                /\ \A k \in 1..(Len(node.attribute["perm"]) - 1) :
                       context.permuted_chunks[k] =
                           Product([j \in 1..(Len(node.attribute["perm"]) - k) |->
                                       output_shapes[1].dims[
                                           node.attribute["perm"][k + j] + 1]])

\* C19: OneHot (given its three inputs) tests in this order: an axis
\* attribute other than -1 returns UnimplementedVariant; else a depth input
\* (input 1) of other than 1 element returns InvalidInputShape with
\* input_index 1; else a values input (input 2) of other than 2 elements
\* returns InvalidInputShape with input_index 2; and only then threads.x and
\* workgroup_size_x come from the workgroup solver applied to i_lens[0].
C19_OneHotChecksInOrder ==
    (pc = "done" /\ node.op_type = "OneHot" /\ Len(input_shapes) = 3) =>
        IF "axis" \in DOMAIN node.attribute /\ node.attribute["axis"] # -1
        THEN result = Err("UnimplementedVariant",
                          <<"OneHot", "axis", node.attribute["axis"]>>)
        ELSE IF Product(input_shapes[2].dims) # Nat64(1)
        THEN result = Err("InvalidInputShape", <<1, input_shapes[2]>>)
        ELSE IF Product(input_shapes[3].dims) # Nat64(2)
        THEN result = Err("InvalidInputShape", <<2, input_shapes[3]>>)
        ELSE IF result.ok
        THEN /\ result.value.threads[2] = Nat64(1)
             /\ result.value.threads[3] = Nat64(1)
             /\ Le64(result.value.threads[1], Nat64(65535))
             /\ Le64(context.workgroup_size_x, Nat64(256))
             /\ Le64(Product(input_shapes[1].dims),
                     Mul64(result.value.threads[1], context.workgroup_size_x))
             /\ Le64(Product(input_shapes[1].dims), Nat64(65535))
                => /\ result.value.threads[1] = Product(input_shapes[1].dims)
                   /\ context.workgroup_size_x = Nat64(1)
        ELSE /\ result.error = "ComputeLimitExceeded"
             /\ Lt64(Nat64(65535 * 256), Product(input_shapes[1].dims))

\* C19, its case reached: 300000 indices with a depth of 1 element and 2
\* values are dispatched as 60000 workgroups of 5.
C19_Witness ==
    /\ pc = "done"
    /\ node.op_type = "OneHot"
    /\ input_shapes[1].dims = Dims(<<300000>>)
    /\ result.ok
    /\ result.value.threads = <<Nat64(60000), Nat64(1), Nat64(1)>>
    /\ context.workgroup_size_x = Nat64(5)

C21_TemplatesInitializedOnce ==
    /\ [](registry \in {{}, TEMPLATES})
    /\ [](Cardinality({i \in DOMAIN calls : calls[i].pc = "initialize"}) <= 1)
    /\ [](\A i \in DOMAIN calls :
             calls[i].pc = "done"
             => /\ calls[i].templates = TEMPLATES
                /\ calls[i].result.ok
                /\ once = "complete")
    /\ [][\A i \in DOMAIN calls :
             (calls[i].pc # "initialize" /\ calls'[i].pc = "initialize")
             => (once = "incomplete"
                 /\ \A j \in DOMAIN calls : calls[j].tera = <<>>)]_vars
    /\ [][registry # {} => registry' = registry]_vars

\* C21, its case reached: every call found the registry uninitialized and has
\* now rendered against the full registry; exactly one of them ran the
\* initializer.
C21_Witness ==
    /\ DOMAIN calls = 1..MaxCalls
    /\ \A i \in DOMAIN calls :
          /\ calls[i].pc = "done"
          /\ calls[i].result.ok
          /\ calls[i].templates = TEMPLATES
    /\ Cardinality({i \in DOMAIN calls : calls[i].tera = raw_templates}) = 1
    /\ registry = TEMPLATES

\* C22 as stated: the chunk vector of every shape bound in the environment
\* has as many elements as the shape has dims, rank 0 included, ends with 1,
\* holds at each place the product of the dims after it, and for rank >= 1
\* starts with element_count / d0, a zero d0 included.
C22_ChunkVectorLaw ==
    pc # "compile"
    => \A sc \in {<<input_shapes[i], context.i_chunks[i]>> : i \in DOMAIN input_shapes}
                 \cup {<<output_shapes[i], context.o_chunks[i]>> :
                          i \in DOMAIN output_shapes} :
          /\ Len(sc[2]) = rank(sc[1])
          /\ sc[2][Len(sc[2])] = One
          /\ \A k \in 1..(Len(sc[2]) - 1) :
                sc[2][k] = Mul64(sc[1].dims[k + 1], sc[2][k + 1])
          /\ rank(sc[1]) >= 1
             => /\ sc[1].dims[1] # Zero64
                /\ sc[2][1] = DivMod64(element_count(sc[1]), sc[1].dims[1]).quot

\* C22, amended: the chunk vector of every shape bound in the environment has
\* as many elements as the shape has dims, and one element for a shape of rank
\* 0; it ends with 1 and holds at each place the product of the dims after
\* it; for rank >= 1 its first element times d0 is element_count, so it is
\* element_count / d0 whenever d0 is not zero.
C22_ChunkVectorLawFromRankOne ==
    pc # "compile"
    => \A sc \in {<<input_shapes[i], context.i_chunks[i]>> : i \in DOMAIN input_shapes}
                 \cup {<<output_shapes[i], context.o_chunks[i]>> :
                          i \in DOMAIN output_shapes} :
          /\ Len(sc[2]) = IF rank(sc[1]) = 0 THEN 1 ELSE rank(sc[1])
          /\ sc[2][Len(sc[2])] = One
          /\ \A k \in 1..(Len(sc[2]) - 1) :
                sc[2][k] = Mul64(sc[1].dims[k + 1], sc[2][k + 1])
          /\ rank(sc[1]) >= 1
             => /\ Mul64(sc[1].dims[1], sc[2][1]) = element_count(sc[1])
                /\ sc[1].dims[1] # Zero64
                   => sc[2][1] = DivMod64(element_count(sc[1]), sc[1].dims[1]).quot

\* C22, its cases reached: the environment of a node whose input has rank 0
\* binds the chunk vector [1] for it, and that of a node whose input is
\* [0, 3, 2, 2] binds [12, 4, 2, 1].
C22_Witness ==
    /\ pc = "done"
    /\ input_shapes # <<>>
    /\ \/ /\ input_shapes[1].dims = <<>>
          /\ context.i_chunks[1] = <<One>>
       \/ /\ input_shapes[1].dims = Dims(<<0, 3, 2, 2>>)
          /\ context.i_chunks[1] = Dims(<<12, 4, 2, 1>>)

\* C23 as stated: a reduction that chose its template has bound axes = the
\* axes attribute (default 0..rank-1 of input 0) with rank added to each
\* negative entry, and chunks_with_dims_preserved = the chunk vector of input
\* 0's dims with each dim listed in axes set to 1, of length rank(input 0);
\* for input [3,2,2] and axes = [-2] the axes are [1] and the chunks [2,2,1],
\* those of [3,1,2].
C23_ReduceAxesAndChunks ==
    (pc # "compile" /\ node.op_type \in ReduceOps /\ node_template # NoTemplate)
    => /\ Len(context.axes) =
              Len(IF "axes" \in DOMAIN node.attribute THEN node.attribute.axes
                  ELSE input_shapes[1].dims)
       /\ \A k \in DOMAIN context.axes :
             context.axes[k] =
                 IF "axes" \in DOMAIN node.attribute
                 THEN IF node.attribute.axes[k] < 0
                      THEN Len(input_shapes[1].dims) + node.attribute.axes[k]
                      ELSE node.attribute.axes[k]
                 ELSE k - 1
       /\ Len(context.chunks_with_dims_preserved) = Len(input_shapes[1].dims)
       /\ \A k \in DOMAIN context.chunks_with_dims_preserved :
             context.chunks_with_dims_preserved[k] =
                 Product([j \in 1..(Len(input_shapes[1].dims) - k) |->
                             IF \E a \in DOMAIN context.axes : context.axes[a] = k + j - 1
                             THEN One ELSE input_shapes[1].dims[k + j]])
       /\ (input_shapes[1].dims = Dims(<<3, 2, 2>>)
           /\ "axes" \in DOMAIN node.attribute /\ node.attribute.axes = <<-2>>)
          => /\ context.axes = <<1>>
             /\ context.chunks_with_dims_preserved = chunks_of(Dims(<<3, 1, 2>>))

\* C23, amended: as C23, with the length of chunks_with_dims_preserved equal
\* to rank(input 0) for an input of rank >= 1, and [1] for an input of rank 0.
C23_ReduceAxesAndChunksFromRankOne ==
    (pc # "compile" /\ node.op_type \in ReduceOps /\ node_template # NoTemplate)
    => /\ Len(context.axes) =
              Len(IF "axes" \in DOMAIN node.attribute THEN node.attribute.axes
                  ELSE input_shapes[1].dims)
       /\ \A k \in DOMAIN context.axes :
             context.axes[k] =
                 IF "axes" \in DOMAIN node.attribute
                 THEN IF node.attribute.axes[k] < 0
                      THEN Len(input_shapes[1].dims) + node.attribute.axes[k]
                      ELSE node.attribute.axes[k]
                 ELSE k - 1
       /\ IF input_shapes[1].dims = <<>>
          THEN context.chunks_with_dims_preserved = <<One>>
          ELSE Len(context.chunks_with_dims_preserved) = Len(input_shapes[1].dims)
       /\ \A k \in 1..Len(input_shapes[1].dims) :
             context.chunks_with_dims_preserved[k] =
                 Product([j \in 1..(Len(input_shapes[1].dims) - k) |->
                             IF \E a \in DOMAIN context.axes : context.axes[a] = k + j - 1
                             THEN One ELSE input_shapes[1].dims[k + j]])
       /\ (input_shapes[1].dims = Dims(<<3, 2, 2>>)
           /\ "axes" \in DOMAIN node.attribute /\ node.attribute.axes = <<-2>>)
          => /\ context.axes = <<1>>
             /\ context.chunks_with_dims_preserved = Dims(<<2, 2, 1>>)

\* C23, its case reached: ReduceMean of [3,2,2] with axes = [-2] compiled, with
\* axes [1] and chunks_with_dims_preserved [2,2,1] bound.
C23_Witness ==
    /\ pc = "done"
    /\ result.ok
    /\ node.op_type = "ReduceMean"
    /\ input_shapes[1].dims = Dims(<<3, 2, 2>>)
    /\ "axes" \in DOMAIN node.attribute
    /\ node.attribute.axes = <<-2>>
    /\ output_shapes[1].dims = Dims(<<3, 1, 2>>)
    /\ context.axes = <<1>>
    /\ context.chunks_with_dims_preserved = Dims(<<2, 2, 1>>)

\* C24: a unary map, an activation, a Cast or a binary arithmetic op that
\* compiled has threads (x, 1, 1) with (x, workgroup_size_x) the result of
\* workgroup_size(ceil(o_lens[0] / 4), 65535, 256), and x * workgroup_size_x *
\* 4 >= o_lens[0]: every output element is covered by an invocation.  Sqrt on
\* [1,1,1,1024] has x = 256 and workgroup_size_x = 1; Add on [2,3] has x = 2.
C24_ElementwiseThreadsCoverOutput ==
    (/\ pc = "done"
     /\ result.ok
     /\ node.op_type \in MapOps \cup ActivationOps \cup ArithmeticOps \cup {"Cast"})
    => /\ workgroup_size(ceil(context.o_lens[1], Nat64(4)),
                         MAX_COMPUTE_WORKGROUPS_PER_DIMENSION, MAX_WORKGROUP_SIZE_X)
          = Ok(<<result.value.threads[1], context.workgroup_size_x>>)
       /\ result.value.threads[2] = One
       /\ result.value.threads[3] = One
       /\ Le64(context.o_lens[1],
               Mul64(Mul64(result.value.threads[1], context.workgroup_size_x),
                     Nat64(4)))
       /\ (node.op_type = "Sqrt" /\ output_shapes[1].dims = Dims(<<1, 1, 1, 1024>>))
          => /\ result.value.threads[1] = Nat64(256)
             /\ context.workgroup_size_x = One
       /\ (node.op_type = "Add" /\ output_shapes[1].dims = Dims(<<2, 3>>))
          => result.value.threads[1] = Nat64(2)

\* C25: agreed_type scans the inputs in order, then the outputs in order.
\* Seen through Concat, which passes it both whole lists first: with both
\* lists empty, and only then, compile returns TypeUnderspecified; when some
\* shape differs in type from the first shape scanned it returns
\* TypesDisagree(a, b), a the type of the first shape scanned and b that of
\* the first shape differing from it; when all agree the common type is the
\* template's scalar type (or the arm panics on the missing output).
C25_AgreedTypeScansInOrder ==
    (pc # "compile" /\ node.op_type = "Concat")
    => LET scanned == [i \in 1..Len(input_shapes) |-> input_shapes[i].data_type]
                      \o [i \in 1..Len(output_shapes) |-> output_shapes[i].data_type]
           differing == {k \in DOMAIN scanned : scanned[k] # scanned[1]}
       IN  /\ (scanned = <<>>) <=> (result = Err("TypeUnderspecified", <<>>))
           /\ (scanned # <<>> /\ differing # {})
              => result = Err("TypesDisagree",
                              <<scanned[1],
                                scanned[CHOOSE k \in differing :
                                            \A j \in differing : k <= j]>>)
           /\ (scanned # <<>> /\ differing = {})
              => IF output_shapes = <<>> THEN result = IndexPanic
                 ELSE node_template.scalar_type = scanned[1]

\* C25, its case reached: Concat of an f32 and an i64 input into an i32 output
\* returned TypesDisagree(F32, I64), the mismatch among the inputs, found
\* before the output is scanned.
C25_Witness ==
    /\ pc = "done"
    /\ node.op_type = "Concat"
    /\ Len(input_shapes) = 2
    /\ input_shapes[1].data_type = "F32"
    /\ input_shapes[2].data_type = "I64"
    /\ Len(output_shapes) = 1
    /\ output_shapes[1].data_type = "I32"
    /\ result = Err("TypesDisagree", <<"F32", "I64">>)

\* C26: a Concat that chose its template has bound cum_len, one entry per
\* input, cum_len[k] = i_lens[0] + ... + i_lens[k] (so it starts with
\* i_lens[0], never decreases and ends with the sum of all i_lens), and its
\* threads are (ceil(o_lens[0] / 256), 1, 1), whatever the workgroup solver
\* would answer for that output.
C26_ConcatPrefixSumsAndThreads ==
    (pc # "compile" /\ node.op_type = "Concat" /\ node_template # NoTemplate)
    => /\ Len(context.cum_len) = Len(input_shapes)
       /\ \A k \in DOMAIN context.cum_len :
             /\ context.cum_len[k] =
                    Add64(IF k = 1 THEN Zero64 ELSE context.cum_len[k - 1],
                          element_count(input_shapes[k]))
             /\ k > 1 => Le64(context.cum_len[k - 1], context.cum_len[k])
       /\ node_template.threads =
              <<ceil(element_count(output_shapes[1]), Nat64(256)), One, One>>

\* C27: under auto_pad SAME_UPPER or SAME_LOWER each of the four pads bound
\* is >= 0, for every kernel, stride and dilation >= 1, strides above the
\* dilated kernel included.
C27_SamePadsNonNegative ==
    (/\ pc # "compile"
     /\ node_template # NoTemplate
     /\ node.op_type \in PoolOps \cup ConvOps
     /\ "auto_pad" \in DOMAIN node.attribute
     /\ node.attribute.auto_pad \in {"SAME_UPPER", "SAME_LOWER"})
    => /\ Len(context.pad) = 4
       /\ \A d \in 1..4 : context.pad[d] >= 0

\* C28: in the unary map, activation, Cast (with a valid `to`) and binary
\* arithmetic arms the workgroup solver runs before the types are compared:
\* a call whose shapes disagree on the type and whose ceil(o_lens[0] / 4) is
\* above what the solver can dispatch, 65535 * 256, returns
\* ComputeLimitExceeded, not TypesDisagree.  And in every family the step that
\* renders the template returns Ok: every error was returned before it.
C28_SolverBeforeTypesRenderLast ==
    /\ [](( /\ pc = "done"
            /\ node.op_type \in MapOps \cup ActivationOps \cup ArithmeticOps \cup {"Cast"}
            /\ node.op_type = "Cast"
               => ("to" \in DOMAIN node.attribute /\ from_i32(node.attribute.to).ok)
            /\ output_shapes # <<>>
            /\ ~agreed_type(input_shapes,
                            IF node.op_type = "Cast" THEN <<>> ELSE output_shapes).ok
            /\ Lt64(Nat64(65535 * 256), ceil(context.o_lens[1], Nat64(4))) )
          => (~result.ok /\ result.error = "ComputeLimitExceeded"))
    /\ [][pc = "render" => (pc' = "done" /\ result'.ok)]_vars

\* C29: resize returns an array that starts with the elements of its
\* argument in order and whose length is 0 or at least 4: an empty array comes
\* back empty, an array of 1, 2 or 3 elements comes back with zeros appended
\* up to exactly 4 elements, and an array of 4 or more elements comes back
\* unchanged, its length not rounded up to a multiple of 4.
C29_ResizePadsShortArrays ==
    pc = "resized"
    => /\ result.ok
       /\ Len(result.value) = 0 \/ Len(result.value) >= 4
       /\ Len(result.value) >= Len(array)
       /\ SubSeq(result.value, 1, Len(array)) = array
       /\ Len(array) = 0 => result.value = <<>>
       /\ Len(array) \in 1..3
          => /\ Len(result.value) = 4
             /\ \A k \in (Len(array) + 1)..4 : result.value[k] = 0
       /\ Len(array) >= 4 => result.value = array

\* C29, its case reached: resize of [1, 2, 0] returned [1, 2, 0, 0], and an
\* array of 5 elements is returned as it is.
C29_Witness ==
    /\ pc = "resized"
    /\ \/ array = <<1, 2, 0>> /\ result = Ok(<<1, 2, 0, 0>>)
       \/ array = <<2, 1, 0, 1, 2>> /\ result = Ok(array)

\* C30: padding with chunk_size >= 1 returns, for each of the n =
\* len(data) / chunk_size (rounded down) complete chunks in order, the bytes
\* of the chunk followed by padding_size zero bytes: n * (chunk_size +
\* padding_size) bytes in all; the bytes at the chunk places are the first n *
\* chunk_size bytes of data, and the bytes of a trailing partial chunk are not
\* in the output.
C30_PaddingPadsEachChunk ==
    (pc = "padded" /\ chunk_size >= 1)
    => /\ result.ok
       /\ Len(result.value) = (Len(data) \div chunk_size) * (chunk_size + padding_size)
       /\ \A k \in DOMAIN result.value :
             result.value[k] =
                 IF (k - 1) % (chunk_size + padding_size) < chunk_size
                 THEN data[((k - 1) \div (chunk_size + padding_size)) * chunk_size
                           + ((k - 1) % (chunk_size + padding_size)) + 1]
                 ELSE 0
       /\ SelectSeq([k \in DOMAIN result.value |->
                        IF (k - 1) % (chunk_size + padding_size) < chunk_size
                        THEN <<result.value[k]>> ELSE <<>>],
                    LAMBDA b : b # <<>>)
          = [k \in 1..((Len(data) \div chunk_size) * chunk_size) |-> <<data[k]>>]

\* C30, its case reached: padding of the 5 bytes [1, 255, 0, 255, 1] with
\* chunk_size 2 and padding_size 1 returned [1, 255, 0, 0, 255, 0]; the fifth
\* byte, a partial chunk, is left out.
C30_Witness ==
    /\ pc = "padded"
    /\ data = <<1, 255, 0, 255, 1>>
    /\ chunk_size = 2
    /\ padding_size = 1
    /\ result = Ok(<<1, 255, 0, 0, 255, 0>>)

====
